---------------------------- MODULE Spec2Model ----------------------------
(***************************************************************************)
(* logsense: ingestion -> detection -> parsing -> buffering pipeline.      *)
(*                                                                         *)
(* Two state machines share this module:                                   *)
(*   RingSpec  the Ring (internal/model) driven by concurrent callers,     *)
(*             with its RWMutex and the two halves of Push made visible;   *)
(*   Spec      one ingestion session: Source Reader goroutines, detection  *)
(*             goroutines, and the Bubble Tea Update loop (ticks, keys).   *)
(* FairSpec is Spec with the fairness the Go scheduler and timers give.    *)
(***************************************************************************)
EXTENDS Integers, Sequences, FiniteSets, TLC

(***************************************************************************)
(* Bounds of the model.                                                    *)
(***************************************************************************)
\* largest Ring capacity explored by RingSpec
MaxCap == 2
\* number of Push calls explored by RingSpec
MaxPush == 3

\* capacity of the reader's line channel (the code's 1024, scaled down)
ChanCap == 1
\* lines one tick may receive (the code's 500, scaled down)
TickLineLimit == 1
\* errors one tick may receive (the code's 20, scaled down)
TickErrLimit == 1
\* lines used as the classification sample (the code's 200, scaled down)
maxSample == 1
\* entries re-detect looks back over (the code's 50, scaled down)
RedetectWindow == 2
\* lines of those handed to Heuristics (the code's 10, scaled down)
RedetectSample == 1
\* lines the sources deliver in one session
MaxLines == 2
\* ingestion errors the sources raise in one session
MaxErrs == 2
\* follow toggles in one session
MaxRestarts == 1
\* re-detect key presses in one session
MaxRedetect == 1

\* lines in a sample handed to the classifier on its own
MaxSampleLen == 3
\* pieces (words, separators, quotes) a logfmt line is put together from
MaxChunks == 4
\* lines a source handed to ingest.Read on its own holds
MaxInput == 3

\* capacity of the error channel
ErrCap == 1

VARIABLES
    \* ---- the Ring (model.Ring): buf, cap, start, size, total, dropped
    ring,
    \* ---- RingSpec: the RWMutex and the callers
    muW,        \* caller holding mu.Lock(), or 0
    muR,        \* callers holding mu.RLock()
    cpc,        \* per caller: position inside a Ring method
    carg,       \* per caller: argument of the call in progress
    cbegin,     \* per caller: size/cap/total/dropped when its Push got the lock
    result,     \* per caller: what its last Snapshot returned
    \* ---- RingSpec history variables
    hist,       \* every entry whose Push has completed, in completion order
    abs,        \* the Ring a caller may observe: entries, total, dropped
    fresh,      \* no ClearVisible or Resize since NewRing
    resized,    \* "no"; "same": a Resize dropped nothing; "shrunk": a Resize
                \* dropped entries; "evicted": a Push evicted after that
    \* ---- Spec: the ui.Model fields of the session
    mLines,     \* m.lines / m.errs / m.ingestCancel: index of the reader they belong to
    mState,     \* m.state: "running" or "paused"
    mFollow,    \* m.follow
    mSchema,    \* m.schema
    mParser,    \* m.parser (NilParser before the first detection)
    \* ---- Spec: goroutines and the event loop
    cfgSource,  \* "stdin", "file" or "demo" (from cfg.UseStdin / cfg.FilePath)
    file,       \* the lines of the file at cfg.FilePath, oldest first (their kinds)
    rd,         \* the Source Reader goroutines, one per ingest.Read call
    det,        \* the detection goroutines, one per setupPipeline call
    tick,       \* the tickMsg handler: pc, loop counter, receives of this loop;
                \* pc "wait": Update is free and the next tickMsg is scheduled
    redetects,  \* redetectMsg values on their way to Update
    swap,       \* applyNewSchema in progress: pc, the new Ring being built, reason
    \* ---- Spec / InferSpec: configuration, schema cache, external inference
    cfgOpts,    \* online: not --offline and OPENAI_API_KEY set; noCache: --no-cache
    cache,      \* the schema cache entry for cfg.FilePath (NoSchema: none)
    infer,      \* external inference calls in flight
    dones,      \* openaiDoneMsg values on their way to Update
    lastMsg,    \* m.lastMsg as the schema handlers set it
    quit,       \* the program has ended
    \* ---- Spec history variables
    nLines,     \* lines the sources have handed to readers so far
    nErrs,      \* errors raised so far by all sources
    nRedetect,  \* re-detect key presses so far
    cacheIO,    \* whether the schema cache was ever read / written
    lost,       \* ids of lines received from a channel and then discarded
    torn,       \* ids of lines parsed while m.parser did not belong to m.schema
    \* ---- the specifications of single functions (classifier, parsers, filter)
    fin,        \* the call: the function and its arguments
    fout        \* what the call returned (NoOut before it returns)

rvars == <<ring, muW, muR, cpc, carg, cbegin, result, hist, abs, fresh, resized>>

\* configuration, schema cache and external inference
ivars == <<cfgOpts, cache, infer, dones, lastMsg, cacheIO>>

pvars == <<mLines, mState, mFollow, mSchema, mParser, cfgSource, file, rd, det, tick,
           redetects, swap, quit, nLines, nErrs, nRedetect, lost, torn,
           cfgOpts, cache, infer, dones, lastMsg, cacheIO>>

vars == <<ring, muW, muR, cpc, carg, cbegin, result, hist, abs, fresh, resized,
          mLines, mState, mFollow, mSchema, mParser, cfgSource, file, rd, det, tick,
          redetects, swap, quit, nLines, nErrs, nRedetect, lost, torn,
          cfgOpts, cache, infer, dones, lastMsg, cacheIO, fin, fout>>

\* the single-function call
fvars == <<fin, fout>>

\* the part of rvars that Spec leaves alone, and the single-function call
rghost == <<muW, muR, cpc, carg, cbegin, result, hist, abs, fresh, resized, fin, fout>>

\* no call made, nothing returned
NoCall == [fn |-> "none"]
NoOut == [fn |-> "none"]

Min(a, b) == IF a < b THEN a ELSE b
Max(a, b) == IF a > b THEN a ELSE b

\* the last k elements of s
LastK(s, k) == SubSeq(s, Len(s) - k + 1, Len(s))

(***************************************************************************)
(* model.Ring                                                              *)
(***************************************************************************)
\* the zero value of a LogEntry slot
NoEntry == [raw |-> ""]

NewRing(capacity) ==
    [buf |-> [i \in 0..(capacity - 1) |-> NoEntry],
     cap |-> capacity, start |-> 0, size |-> 0, total |-> 0, dropped |-> 0]

\* Push without the capacity test: every Push takes the "room left" branch
PushStoreNoEvict(r, e) ==
    [r EXCEPT !.buf[(r.start + r.size) % r.cap] = e, !.size = r.size + 1]

\* Push whose eviction branch forgets r.dropped++
PushStoreNoDrop(r, e) ==
    IF r.size < r.cap
    THEN [r EXCEPT !.buf[(r.start + r.size) % r.cap] = e, !.size = r.size + 1]
    ELSE [r EXCEPT !.buf[r.start] = e, !.start = (r.start + 1) % r.cap]

\* Push whose eviction branch forgets to advance start
PushStoreKeepStart(r, e) ==
    IF r.size < r.cap
    THEN [r EXCEPT !.buf[(r.start + r.size) % r.cap] = e, !.size = r.size + 1]
    ELSE [r EXCEPT !.buf[r.start] = e, !.dropped = r.dropped + 1]

\* Push, lines 85-93: store the entry, evicting the oldest at capacity
PushStore(r, e) ==
    IF r.size < r.cap
    THEN [r EXCEPT !.buf[(r.start + r.size) % r.cap] = e, !.size = r.size + 1]
    ELSE [r EXCEPT !.buf[r.start] = e,
                   !.start = (r.start + 1) % r.cap,
                   !.dropped = r.dropped + 1]

\* Push, line 94
PushCount(r) == [r EXCEPT !.total = r.total + 1]

\* the whole of Push, as executed under mu.Lock()
Push(r, e) == PushCount(PushStore(r, e))

\* Snapshot that copies the slots from index 0 instead of from start
SnapshotFromZero(r) ==
    [entries |-> [i \in 1..r.size |-> r.buf[(i - 1) % r.cap]],
     total |-> r.total, dropped |-> r.dropped]

\* Snapshot, lines 100-104: copy oldest-first, with both counters
Snapshot(r) ==
    [entries |-> [i \in 1..r.size |-> r.buf[(r.start + (i - 1)) % r.cap]],
     total |-> r.total, dropped |-> r.dropped]

ClearVisible(r) == [r EXCEPT !.size = 0, !.start = 0]

\* Resize: reallocate, keeping the most recent min(size, n) entries in order;
\* the counters are left alone
Resize(r, n) ==
    LET old  == Snapshot(r).entries
        k    == Min(r.size, n)
        keep == LastK(old, k)
    IN [buf |-> [i \in 0..(n - 1) |-> IF i < k THEN keep[i + 1] ELSE NoEntry],
        cap |-> n, start |-> 0, size |-> k,
        total |-> r.total, dropped |-> r.dropped]

(***************************************************************************)
(* sync.RWMutex as the Ring uses it                                        *)
(***************************************************************************)
\* a Snapshot that does not wait for the writer
CanRLockAlways(c) == TRUE

\* mu.Lock() returns only when nobody holds the mutex
CanLock(c) == muW = 0 /\ muR = {}

\* mu.RLock() returns only when no writer holds the mutex
CanRLock(c) == muW = 0

(***************************************************************************)
(* RingSpec: concurrent callers of one Ring                                *)
(***************************************************************************)
\* two goroutines calling into the Ring (the Update loop and a detection goroutine)
Callers == {1, 2}
Entries == {[raw |-> "a"], [raw |-> "b"]}
NoResult == [entries |-> <<>>, total |-> 0, dropped |-> 0, cap |-> 0, taken |-> FALSE]
NoBegin == [size |-> 0, cap |-> 0, total |-> 0, dropped |-> 0]

\* the abstract Ring after one more entry under capacity c
AbsPush(a, e, c) ==
    [entries |-> IF Len(a.entries) < c THEN Append(a.entries, e)
                 ELSE Append(Tail(a.entries), e),
     total |-> a.total + 1,
     dropped |-> IF Len(a.entries) < c THEN a.dropped ELSE a.dropped + 1]

\* the session variables while only the Ring is exercised
PIdle ==
    /\ mLines = 0 /\ mState = "running" /\ mFollow = FALSE
    /\ mSchema = [formatName |-> "", parseStrategy |-> ""]
    /\ mParser = [strategy |-> "nil", schema |-> [formatName |-> "", parseStrategy |-> ""]]
    /\ cfgSource = "demo" /\ file = <<>> /\ rd = <<>> /\ det = <<>>
    /\ tick = [pc |-> "wait", i |-> 0, n |-> 0]
    /\ redetects = <<>> /\ quit = FALSE
    /\ swap = [pc |-> "idle", nr |-> <<>>, reason |-> ""]
    /\ cfgOpts = [online |-> FALSE, noCache |-> FALSE]
    /\ cache = [formatName |-> "", parseStrategy |-> ""]
    /\ infer = 0 /\ dones = <<>> /\ lastMsg = ""
    /\ cacheIO = [read |-> FALSE, written |-> FALSE]
    /\ nLines = 0 /\ nErrs = 0 /\ nRedetect = 0 /\ lost = {} /\ torn = {}

RInit ==
    /\ fin = NoCall /\ fout = NoOut
    /\ \E c \in 1..MaxCap : ring = NewRing(c)
    /\ muW = 0
    /\ muR = {}
    /\ cpc = [c \in Callers |-> "idle"]
    /\ carg = [c \in Callers |-> 0]
    /\ cbegin = [c \in Callers |-> NoBegin]
    /\ result = [c \in Callers |-> NoResult]
    /\ hist = <<>>
    /\ abs = [entries |-> <<>>, total |-> 0, dropped |-> 0]
    /\ fresh = TRUE
    /\ resized = "no"
    /\ PIdle

\* Push: r.mu.Lock()
PushLock(c, e) ==
    /\ cpc[c] = "idle"
    /\ Len(hist) + Cardinality({d \in Callers : cpc[d] \in {"push", "count"}}) < MaxPush
    /\ CanLock(c)
    /\ muW' = c
    /\ cpc' = [cpc EXCEPT ![c] = "push"]
    /\ carg' = [carg EXCEPT ![c] = e]
    /\ cbegin' = [cbegin EXCEPT ![c] =
                    [size |-> ring.size, cap |-> ring.cap,
                     total |-> ring.total, dropped |-> ring.dropped]]
    /\ result' = [result EXCEPT ![c] = NoResult]
    /\ UNCHANGED <<ring, muR, hist, abs, fresh, resized>>

\* Push: the store and the size/start/dropped update
PushStoreStep(c) ==
    /\ cpc[c] = "push"
    /\ ring' = PushStore(ring, carg[c])
    /\ cpc' = [cpc EXCEPT ![c] = "count"]
    /\ UNCHANGED <<muW, muR, carg, cbegin, result, hist, abs, fresh, resized>>

\* Push: r.total++ and the deferred Unlock
PushCountStep(c) ==
    /\ cpc[c] = "count"
    /\ ring' = PushCount(ring)
    /\ muW' = IF muW = c THEN 0 ELSE muW
    /\ cpc' = [cpc EXCEPT ![c] = "idle"]
    /\ hist' = Append(hist, carg[c])
    /\ abs' = AbsPush(abs, carg[c], ring.cap)
    /\ carg' = [carg EXCEPT ![c] = 0]
    /\ cbegin' = [cbegin EXCEPT ![c] = NoBegin]
    /\ resized' = IF resized = "shrunk" /\ cbegin[c].size = cbegin[c].cap
                  THEN "evicted" ELSE resized
    /\ UNCHANGED <<muR, result, fresh>>

\* Snapshot: r.mu.RLock()
SnapLock(c) ==
    /\ cpc[c] = "idle"
    /\ CanRLock(c)
    /\ muR' = muR \cup {c}
    /\ cpc' = [cpc EXCEPT ![c] = "snap"]
    /\ result' = [result EXCEPT ![c] = NoResult]
    /\ UNCHANGED <<ring, muW, carg, cbegin, hist, abs, fresh, resized>>

\* Snapshot: the copy, the return and the deferred RUnlock
SnapCopy(c) ==
    /\ cpc[c] = "snap"
    /\ result' = [result EXCEPT ![c] =
                    [entries |-> Snapshot(ring).entries,
                     total |-> Snapshot(ring).total,
                     dropped |-> Snapshot(ring).dropped,
                     cap |-> ring.cap, taken |-> TRUE]]
    /\ muR' = muR \ {c}
    /\ cpc' = [cpc EXCEPT ![c] = "idle"]
    /\ UNCHANGED <<ring, muW, carg, cbegin, hist, abs, fresh, resized>>

\* ClearVisible: r.mu.Lock()
ClearLock(c) ==
    /\ cpc[c] = "idle"
    /\ CanLock(c)
    /\ muW' = c
    /\ cpc' = [cpc EXCEPT ![c] = "clear"]
    /\ result' = [result EXCEPT ![c] = NoResult]
    /\ UNCHANGED <<ring, muR, carg, cbegin, hist, abs, fresh, resized>>

\* ClearVisible: size = 0, start = 0, Unlock
ClearStep(c) ==
    /\ cpc[c] = "clear"
    /\ ring' = ClearVisible(ring)
    /\ muW' = IF muW = c THEN 0 ELSE muW
    /\ cpc' = [cpc EXCEPT ![c] = "idle"]
    /\ abs' = [abs EXCEPT !.entries = <<>>]
    /\ fresh' = FALSE
    /\ UNCHANGED <<muR, carg, cbegin, result, hist, resized>>

\* Resize(n): take the lock
ResizeLock(c, n) ==
    /\ cpc[c] = "idle"
    /\ CanLock(c)
    /\ muW' = c
    /\ cpc' = [cpc EXCEPT ![c] = "resize"]
    /\ carg' = [carg EXCEPT ![c] = n]
    /\ result' = [result EXCEPT ![c] = NoResult]
    /\ UNCHANGED <<ring, muR, cbegin, hist, abs, fresh, resized>>

\* Resize(n): reallocate and unlock
ResizeStep(c) ==
    /\ cpc[c] = "resize"
    /\ ring' = Resize(ring, carg[c])
    /\ muW' = IF muW = c THEN 0 ELSE muW
    /\ cpc' = [cpc EXCEPT ![c] = "idle"]
    /\ abs' = [abs EXCEPT !.entries = LastK(abs.entries, Min(Len(abs.entries), carg[c]))]
    /\ fresh' = FALSE
    /\ resized' = IF carg[c] < ring.size THEN "shrunk"
                  ELSE IF resized = "no" THEN "same" ELSE resized
    /\ carg' = [carg EXCEPT ![c] = 0]
    /\ UNCHANGED <<muR, cbegin, result, hist>>

RStep ==
    \/ \E c \in Callers, e \in Entries : PushLock(c, e)
    \/ \E c \in Callers : PushStoreStep(c)
    \/ \E c \in Callers : PushCountStep(c)
    \/ \E c \in Callers : SnapLock(c)
    \/ \E c \in Callers : SnapCopy(c)
    \/ \E c \in Callers : ClearLock(c)
    \/ \E c \in Callers : ClearStep(c)
    \/ \E c \in Callers, n \in 1..MaxCap : ResizeLock(c, n)
    \/ \E c \in Callers : ResizeStep(c)

RNext == RStep /\ UNCHANGED pvars /\ UNCHANGED fvars

RingSpec == RInit /\ [][RNext]_vars

(***************************************************************************)
(* detect.Heuristics and the canned schemas                                *)
(*                                                                         *)
(* A line is [id, kind, src]: kind says which recognisers its text         *)
(* matches, id and src tell the lines of a session apart.                  *)
(***************************************************************************)
\* strings.TrimSpace(l) == ""
IsBlank(k) == k = "blank"
\* HasPrefix "{" and HasSuffix "}"
LooksJSON(k) == k \in {"json", "jsonkv"}
\* reLogfmtKV matches and the line contains "="
LooksLogfmt(k) == k \in {"logfmt", "jsonkv"}
\* reApacheCombined matches
LooksApache(k) == k = "apache"
\* reSyslogRFC5424 matches
LooksSyslog(k) == k = "syslog"

NoSchema == [formatName |-> "", parseStrategy |-> ""]
jsonSchema == [formatName |-> "json_lines", parseStrategy |-> "json"]
logfmtSchema == [formatName |-> "logfmt", parseStrategy |-> "logfmt"]
apacheSchema == [formatName |-> "apache_combined", parseStrategy |-> "regex"]
syslogSchema == [formatName |-> "syslog_rfc5424", parseStrategy |-> "regex"]
unknownSchema == [formatName |-> "unknown", parseStrategy |-> "regex"]

\* Heuristics: the Guess for a sample; Confidence is hits / lines (0 when lines = 0)
Heuristics(sample) ==
    LET nb          == {i \in DOMAIN sample : ~IsBlank(sample[i].kind)}
        lines       == Cardinality(nb)
        jsonCount   == Cardinality({i \in nb : LooksJSON(sample[i].kind)})
        logfmtCount == Cardinality({i \in nb : LooksLogfmt(sample[i].kind)})
        apacheCount == Cardinality({i \in nb : LooksApache(sample[i].kind)})
        syslogCount == Cardinality({i \in nb : LooksSyslog(sample[i].kind)})
    IN  IF /\ jsonCount > logfmtCount /\ jsonCount > apacheCount
           /\ jsonCount > syslogCount /\ jsonCount >= lines \div 2
        THEN [schema |-> jsonSchema, hits |-> jsonCount, lines |-> lines]
        ELSE IF /\ logfmtCount >= apacheCount /\ logfmtCount >= syslogCount
                /\ logfmtCount >= lines \div 2
        THEN [schema |-> logfmtSchema, hits |-> logfmtCount, lines |-> lines]
        ELSE IF apacheCount >= syslogCount /\ apacheCount > 0
        THEN [schema |-> apacheSchema, hits |-> apacheCount, lines |-> lines]
        ELSE IF syslogCount > 0
        THEN [schema |-> syslogSchema, hits |-> syslogCount, lines |-> lines]
        ELSE [schema |-> unknownSchema, hits |-> 0, lines |-> lines]

(***************************************************************************)
(* parse.NewParser and Parser.Parse                                        *)
(***************************************************************************)
\* the nil Parser interface value
NilParser == [strategy |-> "nil", schema |-> NoSchema]

NewParser(s) ==
    [strategy |-> IF s.parseStrategy = "json" THEN "json"
                  ELSE IF s.parseStrategy \in {"logfmt", "kv"} THEN "logfmt"
                  ELSE "regex",
     schema |-> s]

\* every strategy returns an entry with Raw = line and FormatName = p.schema.FormatName
Parse(p, l) == [raw |-> l, formatName |-> p.schema.formatName]

(***************************************************************************)
(* The session: ui.Model, setupPipeline, Update                            *)
(***************************************************************************)
\* kinds of line the sources of the session deliver
LineKinds == {"json", "logfmt"}

\* cfg.MaxBuffer: floored at 50000 by config.Load, so the session never fills it
MaxBuffer == MaxLines + 1

NoLine == [id |-> 0, kind |-> "blank", src |-> 0]

\* which reading loop ingest.Read starts
ReaderKind(src, follow) ==
    IF src = "file" THEN (IF follow THEN "tail" ELSE "file") ELSE src

\* ingest.Read: two fresh channels and a goroutine about to enter its loop;
\* pos is the number of file lines behind the reader: os.Open starts at the
\* beginning, tail.TailFile at io.SeekEnd
NewReader(kind) ==
    [kind |-> kind,
     pc |-> IF kind \in {"tail", "demo"} THEN "select" ELSE "scan",
     pos |-> IF kind = "tail" THEN Len(file) ELSE 0,
     cancelled |-> FALSE, pend |-> NoLine,
     out |-> <<>>, outClosed |-> FALSE, errs |-> <<>>, errsClosed |-> FALSE]

\* the closure setupPipeline returns, about to enter its sampling loop
NewDetector ==
    [pc |-> "sampling", buffered |-> <<>>, haveLine |-> FALSE,
     minElapsed |-> FALSE, cacheHit |-> FALSE, cs |-> NoSchema,
     p |-> NilParser, k |-> 0]

Readers == 1..Len(rd)
Detectors == 1..Len(det)

\* ctx.Done() of reader g is ready: setupPipeline called its cancel function
\* (no SIGINT/SIGTERM is delivered in the behaviours modelled here)
Cancelled(g) == rd[g].cancelled

\* the program's goroutines are alive
Alive == ~quit

\* no applyNewSchema is running
NoSwap == [pc |-> "idle", nr |-> <<>>, reason |-> ""]

\* an Update that handles nothing while an external inference call is in flight
UpdateIdleAwaitsInference == Alive /\ tick.pc = "wait" /\ swap.pc = "idle" /\ infer = 0

\* Update is free to handle the next message
UpdateIdle == Alive /\ tick.pc = "wait" /\ swap.pc = "idle"

\* a schema as external inference returns it (ai.toSchema)
aiSchema == [formatName |-> "ai_format", parseStrategy |-> "regex"]

\* a Schema saved to the cache by an earlier session
cachedSchema == [formatName |-> "cached_format", parseStrategy |-> "regex"]

\* initialModel and Model.Init for the chosen configuration: the first
\* setupPipeline has started reader 1 and detection goroutine 1
Boot ==
    /\ file = <<>>
    /\ swap = NoSwap
    /\ infer = 0 /\ dones = <<>> /\ lastMsg = ""
    /\ cacheIO = [read |-> FALSE, written |-> FALSE]
    /\ rd = <<NewReader(ReaderKind(cfgSource, mFollow))>>
    /\ det = <<NewDetector>>
    /\ mLines = 1
    /\ mState = "running"
    /\ mSchema = NoSchema
    /\ mParser = NilParser
    /\ ring = NewRing(MaxBuffer)
    /\ tick = [pc |-> "wait", i |-> 0, n |-> 0]
    /\ redetects = <<>>
    /\ quit = FALSE
    /\ nLines = 0 /\ nErrs = 0 /\ nRedetect = 0
    /\ lost = {} /\ torn = {}
    /\ muW = 0 /\ muR = {}
    /\ cpc = [c \in Callers |-> "idle"]
    /\ carg = [c \in Callers |-> 0]
    /\ cbegin = [c \in Callers |-> NoBegin]
    /\ result = [c \in Callers |-> NoResult]
    /\ hist = <<>>
    /\ abs = [entries |-> <<>>, total |-> 0, dropped |-> 0]
    /\ fresh = TRUE
    /\ resized = "no"
    /\ fin = NoCall /\ fout = NoOut

\* an offline session (--offline or no API key) on any source, empty schema cache
Init ==
    /\ cfgSource \in {"stdin", "file", "demo"}
    /\ mFollow \in BOOLEAN
    /\ (cfgSource # "file") => (mFollow = FALSE)
    /\ cfgOpts = [online |-> FALSE, noCache |-> FALSE]
    /\ cache = NoSchema
    /\ Boot

\* an online session on a static file, with or without --no-cache, with or
\* without a cache entry for the file
InferInit ==
    /\ cfgSource = "file"
    /\ mFollow = FALSE
    /\ cfgOpts \in [online : {TRUE}, noCache : BOOLEAN]
    /\ cache \in {NoSchema, cachedSchema}
    /\ Boot

\* the reader holds line l and reaches out <- l: the send completes at once
\* when the channel has room, else the goroutine waits in it
Offer(r, l) ==
    IF Len(r.out) < ChanCap
    THEN [r EXCEPT !.out = Append(@, l)]
    ELSE [r EXCEPT !.pend = l, !.pc = "send"]

\* the reader reaches errs <- err (readFromTail continues its loop,
\* readFromReader returns and Read closes the channels)
OfferErr(r) ==
    IF Len(r.errs) < ErrCap
    THEN IF r.kind = "tail"
         THEN [r EXCEPT !.errs = Append(@, "err"), !.pc = "select"]
         ELSE [r EXCEPT !.errs = Append(@, "err"), !.pc = "done", !.pend = NoLine,
                        !.outClosed = TRUE, !.errsClosed = TRUE]
    ELSE [r EXCEPT !.pc = "senderr"]

\* Read's deferred close(errs) and close(out), run as the goroutine returns
Closed(r) == [r EXCEPT !.pc = "done", !.pend = NoLine,
                       !.outClosed = TRUE, !.errsClosed = TRUE]

\* the lines of Update and of the goroutines that no reader step touches
ReaderFrame ==
    UNCHANGED <<ring, rghost, mLines, mState, mFollow, mSchema, mParser, cfgSource,
                det, tick, redetects, swap, ivars, quit, nRedetect, lost, torn>>

(***************************************************************************)
(* ingest: the Source Reader goroutines                                    *)
(***************************************************************************)
\* the reader reads a file and has not reached its end
BehindFile(r) == r.kind \in {"file", "tail"} /\ r.pos < Len(file)

\* the next line reader g gets from its source: the next line of the file
\* (an appended line of kind k when the reader is at the end of the file),
\* or a new line of kind k from stdin or the demo generator
NextLine(g, k) ==
    IF rd[g].kind \in {"file", "tail"}
    THEN [id |-> rd[g].pos + 1,
          kind |-> IF BehindFile(rd[g]) THEN file[rd[g].pos + 1] ELSE k,
          src |-> g]
    ELSE [id |-> nLines + 1, kind |-> k, src |-> g]

\* what getting that line does to the source: it counts as handed out, and a
\* line not yet in the file is appended to it
Produce(g, k) ==
    /\ nLines < MaxLines
    /\ nLines' = nLines + 1
    /\ file' = IF rd[g].kind \in {"file", "tail"} /\ ~BehindFile(rd[g])
               THEN Append(file, k) ELSE file

\* the reader has taken the line
Advance(r) == [r EXCEPT !.pos = IF r.kind \in {"file", "tail"} THEN @ + 1 ELSE @]

\* readFromReader: scanner.Scan() returns a line, then the non-blocking look
\* at ctx.Done() that precedes the send
ReaderScanLine(g, k) ==
    /\ Alive
    /\ rd[g].kind \in {"stdin", "file"}
    /\ rd[g].pc = "scan"
    /\ IF Cancelled(g)
       THEN /\ rd' = [rd EXCEPT ![g] = Closed(@)]
            /\ UNCHANGED <<file, nLines>>
       ELSE /\ Produce(g, k)
            /\ rd' = [rd EXCEPT ![g] = Offer(Advance(@), NextLine(g, k))]
    /\ UNCHANGED nErrs
    /\ ReaderFrame

\* readFromReader: scanner.Scan() returns false at end of input
ReaderScanEOF(g) ==
    /\ Alive
    /\ rd[g].kind \in {"stdin", "file"}
    /\ rd[g].pc = "scan"
    /\ ~BehindFile(rd[g])
    /\ rd' = [rd EXCEPT ![g] = Closed(@)]
    /\ UNCHANGED <<file, nLines, nErrs>>
    /\ ReaderFrame

\* readFromReader: scanner.Scan() returns false with scanner.Err() set
ReaderScanErr(g) ==
    /\ Alive
    /\ rd[g].kind \in {"stdin", "file"}
    /\ rd[g].pc = "scan"
    /\ nErrs < MaxErrs
    /\ nErrs' = nErrs + 1
    /\ rd' = [rd EXCEPT ![g] = OfferErr(@)]
    /\ UNCHANGED <<file, nLines>>
    /\ ReaderFrame

\* out <- Line{...}: a waiting send completes once the channel has room
ReaderSend(g) ==
    /\ Alive
    /\ rd[g].pc = "send"
    /\ Len(rd[g].out) < ChanCap
    /\ rd' = [rd EXCEPT ![g].out = Append(@, rd[g].pend),
                        ![g].pend = NoLine,
                        ![g].pc = IF rd[g].kind \in {"tail", "demo"}
                                  THEN "select" ELSE "scan"]
    /\ UNCHANGED <<file, nLines, nErrs>>
    /\ ReaderFrame

\* errs <- err: a waiting send completes once the channel has room
ReaderSendErr(g) ==
    /\ Alive
    /\ rd[g].pc = "senderr"
    /\ Len(rd[g].errs) < ErrCap
    /\ rd' = [rd EXCEPT ![g] = OfferErr(@)]
    /\ UNCHANGED <<file, nLines, nErrs>>
    /\ ReaderFrame

\* readFromTail / demo: the select takes the line (or ticker) case
ReaderSelectLine(g, k) ==
    /\ Alive
    /\ rd[g].kind \in {"tail", "demo"}
    /\ rd[g].pc = "select"
    /\ Produce(g, k)
    /\ rd' = [rd EXCEPT ![g] = Offer(Advance(@), NextLine(g, k))]
    /\ UNCHANGED nErrs
    /\ ReaderFrame

\* readFromTail: the line received carries l.Err
ReaderSelectErr(g) ==
    /\ Alive
    /\ rd[g].kind = "tail"
    /\ rd[g].pc = "select"
    /\ nErrs < MaxErrs
    /\ nErrs' = nErrs + 1
    /\ rd' = [rd EXCEPT ![g] = OfferErr(@)]
    /\ UNCHANGED <<file, nLines>>
    /\ ReaderFrame

\* readFromTail / demo: the select takes the ctx.Done() case
ReaderSelectDone(g) ==
    /\ Alive
    /\ rd[g].pc = "select"
    /\ Cancelled(g)
    /\ rd' = [rd EXCEPT ![g] = Closed(@)]
    /\ UNCHANGED <<file, nLines, nErrs>>
    /\ ReaderFrame

\* any step of reader goroutine g
ReaderStep(g) ==
    \/ \E k \in LineKinds : ReaderScanLine(g, k)
    \/ ReaderScanEOF(g)
    \/ ReaderScanErr(g)
    \/ ReaderSend(g)
    \/ ReaderSendErr(g)
    \/ \E k \in LineKinds : ReaderSelectLine(g, k)
    \/ ReaderSelectErr(g)
    \/ ReaderSelectDone(g)


(***************************************************************************)
(* setupPipeline: the detection goroutine (pipeline.go 50-175)             *)
(***************************************************************************)
DetFrame ==
    UNCHANGED <<rghost, mLines, mState, mFollow, cfgSource, file, tick, redetects, swap,
                nLines, nErrs, nRedetect, lost>>

\* a loop that ends as soon as either condition is met
AfterSelectEither(d) ==
    IF d.haveLine \/ d.minElapsed THEN [d EXCEPT !.pc = "heuristics"] ELSE d

\* the loop condition !(haveLine && minElapsed), evaluated after a select case
AfterSelect(d) ==
    IF d.haveLine /\ d.minElapsed THEN [d EXCEPT !.pc = "heuristics"] ELSE d

\* case l, ok := <-m.lines, ok: keep the line
DetRecv(g) ==
    /\ Alive
    /\ det[g].pc = "sampling"
    /\ rd[mLines].out # <<>>
    /\ det' = [det EXCEPT ![g] =
                 AfterSelect([det[g] EXCEPT
                                !.buffered = Append(@, Head(rd[mLines].out)),
                                !.haveLine = TRUE])]
    /\ rd' = [rd EXCEPT ![mLines].out = Tail(@)]
    /\ UNCHANGED <<ring, mSchema, mParser, quit, torn>>
    /\ UNCHANGED ivars
    /\ DetFrame

\* case l, ok := <-m.lines, !ok: quit if nothing was seen, else go on to detect
DetClosed(g) ==
    /\ Alive
    /\ det[g].pc = "sampling"
    /\ rd[mLines].out = <<>>
    /\ rd[mLines].outClosed
    /\ IF det[g].haveLine
       THEN /\ det' = [det EXCEPT ![g] = AfterSelect([det[g] EXCEPT !.minElapsed = TRUE])]
            /\ UNCHANGED quit
       ELSE /\ det' = [det EXCEPT ![g].pc = "quit"]
            /\ quit' = TRUE
    /\ UNCHANGED <<ring, rd, mSchema, mParser, torn>>
    /\ UNCHANGED ivars
    /\ DetFrame

\* case <-timer.C: the one second has passed
DetTimer(g) ==
    /\ Alive
    /\ det[g].pc = "sampling"
    /\ ~det[g].minElapsed
    /\ det' = [det EXCEPT ![g] = AfterSelect([det[g] EXCEPT !.minElapsed = TRUE])]
    /\ UNCHANGED <<ring, rd, mSchema, mParser, quit, torn>>
    /\ UNCHANGED ivars
    /\ DetFrame

\* a cache that is consulted whatever --no-cache says
UseCacheIgnoringFlag == cfgSource = "file"

\* !m.cfg.NoCache && strings.TrimSpace(m.cfg.FilePath) != ""
UseCache == ~cfgOpts.noCache /\ cfgSource = "file"

\* detect.LoadSchemaFromCache(m.cfg.FilePath): the entry and whether there is one
LoadSchemaFromCache == [schema |-> cache, ok |-> cache # NoSchema]

\* lines 79-112: m.schema = Heuristics(first maxSample buffered lines).Schema,
\* then (no forced format) the cache lookup, whose hit replaces m.schema
DetHeuristics(g) ==
    /\ Alive
    /\ det[g].pc = "heuristics"
    /\ LET h   == Heuristics(SubSeq(det[g].buffered, 1,
                                    Min(Len(det[g].buffered), maxSample))).schema
           hit == UseCache /\ LoadSchemaFromCache.ok
       IN /\ mSchema' = IF hit THEN LoadSchemaFromCache.schema ELSE h
          /\ det' = [det EXCEPT ![g].pc = "newparser", ![g].cacheHit = hit,
                                ![g].cs = IF hit THEN LoadSchemaFromCache.schema
                                          ELSE NoSchema]
    /\ cacheIO' = IF UseCache THEN [cacheIO EXCEPT !.read = TRUE] ELSE cacheIO
    /\ UNCHANGED <<ring, rd, mParser, quit, torn>>
    /\ UNCHANGED <<cfgOpts, cache, infer, dones, lastMsg>>
    /\ DetFrame

\* lines 113-114: p, _ := parse.NewParser(m.schema, ...); m.parser = p
DetNewParser(g) ==
    /\ Alive
    /\ det[g].pc = "newparser"
    /\ mParser' = NewParser(mSchema)
    /\ det' = [det EXCEPT ![g].p = NewParser(mSchema), ![g].pc = "replay", ![g].k = 1]
    /\ UNCHANGED <<ring, rd, mSchema, quit, torn>>
    /\ UNCHANGED ivars
    /\ DetFrame

\* a replay that stops after the classification sample
ReplayCountSample(d) == Min(Len(d.buffered), maxSample)

\* for _, bl := range buffered: the number of lines the replay loop visits
ReplayCount(d) == Len(d.buffered)

\* !m.cfg.Offline && m.cfg.OpenAIKey() != "" && !cacheHit
WantsInference(d) == cfgOpts.online /\ ~d.cacheHit

\* lines 118-134: one iteration of the replay loop; after the last one the
\* goroutine goes on to its return: at once with detectedMsg, unless it is
\* to start external inference
DetReplay(g) ==
    /\ Alive
    /\ det[g].pc = "replay"
    /\ LET d == det[g]
           l == d.buffered[d.k]
       IN /\ ring' = Push(ring, Parse(d.p, l))
          /\ torn' = IF mParser.schema = mSchema THEN torn ELSE torn \cup {l.id}
          /\ det' = [det EXCEPT ![g] =
                       IF d.k < ReplayCount(d)
                       THEN [d EXCEPT !.k = d.k + 1]
                       ELSE IF WantsInference(d)
                       THEN [d EXCEPT !.pc = "return", !.buffered = <<>>,
                                      !.cs = NoSchema, !.p = NilParser, !.k = 0]
                       ELSE [d EXCEPT !.pc = "done", !.buffered = <<>>,
                                      !.cs = NoSchema, !.p = NilParser, !.k = 0]]
    /\ UNCHANGED <<rd, mSchema, mParser, quit>>
    /\ UNCHANGED ivars
    /\ DetFrame

\* lines 151-173: return tea.Batch(detectedMsg, openaiStartMsg, inference) and
\* the program runs the batch: the inference call starts in its own goroutine
DetReturnInfer(g) ==
    /\ Alive
    /\ det[g].pc = "return"
    /\ det' = [det EXCEPT ![g].pc = "done"]
    /\ infer' = infer + 1
    /\ UNCHANGED <<ring, rd, mSchema, mParser, quit, torn>>
    /\ UNCHANGED <<cfgOpts, cache, dones, lastMsg, cacheIO>>
    /\ DetFrame

\* lines 151-173: the closure returns the tea.Batch command itself as its
\* message; Update has no case for a message of that type, so nothing starts
DetReturnDropped(g) ==
    /\ Alive
    /\ det[g].pc = "return"
    /\ det' = [det EXCEPT ![g].pc = "done"]
    /\ UNCHANGED <<ring, rd, mSchema, mParser, quit, torn>>
    /\ UNCHANGED ivars
    /\ DetFrame

\* any step of detection goroutine g
DetStep(g) ==
    \/ DetRecv(g)
    \/ DetClosed(g)
    \/ DetTimer(g)
    \/ DetHeuristics(g)
    \/ DetNewParser(g)
    \/ DetReplay(g)
    \/ DetReturnInfer(g)
    \/ DetReturnDropped(g)

(***************************************************************************)
(* Update: the tickMsg handler (part_004 569-622)                          *)
(***************************************************************************)
TickFrame ==
    UNCHANGED <<rghost, mLines, mState, mFollow, mSchema, mParser, cfgSource, file, det,
                redetects, swap, ivars, quit, nLines, nErrs, nRedetect>>

\* a line loop that never looks at its counter
TickMoreLinesAlways(i) == TRUE

\* for i := 0; i < 500; i++
TickMoreLines(i) == i < TickLineLimit

\* for j := 0; j < 20; j++
TickMoreErrs(j) == j < TickErrLimit

\* a tickMsg arrives: enter the line loop when running, else go to the error loop
TickStart ==
    /\ UpdateIdle
    /\ tick' = [pc |-> IF mState = "running" THEN "lines" ELSE "errs", i |-> 0, n |-> 0]
    /\ UNCHANGED <<ring, rd, lost, torn>>
    /\ TickFrame

\* one evaluation of the line loop: the loop test, then the select on m.lines
TickLine ==
    /\ Alive
    /\ tick.pc = "lines"
    /\ LET r == rd[mLines] IN
       IF ~TickMoreLines(tick.i)
       THEN /\ tick' = [pc |-> "errs", i |-> 0, n |-> 0]
            /\ UNCHANGED <<ring, rd, lost, torn>>
       ELSE IF r.out # <<>>
       THEN LET l == Head(r.out) IN
            /\ rd' = [rd EXCEPT ![mLines].out = Tail(@)]
            /\ tick' = [tick EXCEPT !.i = @ + 1, !.n = @ + 1]
            /\ IF mParser # NilParser
               THEN /\ ring' = Push(ring, Parse(mParser, l))
                    /\ torn' = IF mParser.schema = mSchema THEN torn
                               ELSE torn \cup {l.id}
                    /\ UNCHANGED lost
               ELSE /\ lost' = lost \cup {l.id}
                    /\ UNCHANGED <<ring, torn>>
       ELSE IF r.outClosed
       THEN \* !ok: break leaves the select only; the loop goes on
            /\ tick' = [tick EXCEPT !.i = @ + 1]
            /\ UNCHANGED <<ring, rd, lost, torn>>
       ELSE \* default: i = 999999
            /\ tick' = [pc |-> "errs", i |-> 0, n |-> 0]
            /\ UNCHANGED <<ring, rd, lost, torn>>
    /\ TickFrame

\* one evaluation of the error loop; leaving it the handler refreshes and
\* returns tea.Tick(200ms), which schedules the next tickMsg
TickErr ==
    /\ Alive
    /\ tick.pc = "errs"
    /\ LET r == rd[mLines] IN
       IF TickMoreErrs(tick.i) /\ r.errs # <<>>
       THEN /\ rd' = [rd EXCEPT ![mLines].errs = Tail(@)]
            /\ tick' = [tick EXCEPT !.i = @ + 1, !.n = @ + 1]
       ELSE \* loop test fails, !ok (j = 999999) or default (j = 999999)
            /\ tick' = [pc |-> "wait", i |-> 0, n |-> 0]
            /\ UNCHANGED rd
    /\ UNCHANGED <<ring, lost, torn>>
    /\ TickFrame

(***************************************************************************)
(* Update: key handlers and messages                                       *)
(***************************************************************************)
\* keymap.Pause
KeyPause ==
    /\ UpdateIdle
    /\ mState' = IF mState = "running" THEN "paused" ELSE "running"
    /\ UNCHANGED <<ring, rghost, mLines, mFollow, mSchema, mParser, cfgSource, file, rd, det,
                   tick, redetects, swap, ivars, quit, nLines, nErrs, nRedetect,
                   lost, torn>>

\* a setupPipeline that leaves the running ingest alone
CancelIngestSkipped(rs) == rs

\* setupPipeline: if m.ingestCancel != nil { m.ingestCancel() }
CancelIngest(rs) == [rs EXCEPT ![mLines].cancelled = TRUE]

\* keymap.Follow: m.follow = !m.follow; return m, setupPipeline(m)
\* setupPipeline cancels the running ingest, starts a new reader on new
\* channels and returns a new detection closure, which runs as a goroutine
KeyFollow ==
    /\ UpdateIdle
    /\ Len(rd) <= MaxRestarts
    /\ mFollow' = ~mFollow
    /\ rd' = Append(CancelIngest(rd), NewReader(ReaderKind(cfgSource, ~mFollow)))
    /\ det' = Append(det, NewDetector)
    /\ mLines' = Len(rd) + 1
    /\ UNCHANGED <<ring, rghost, mState, mSchema, mParser, cfgSource, file, tick,
                   redetects, swap, ivars,
                   quit, nLines, nErrs, nRedetect, lost, torn>>

\* lines.Raw of the entries, as triggerRedetect collects them
RawOf(es) == [i \in DOMAIN es |-> es[i].raw]

\* keymap.Redetect -> triggerRedetect: Heuristics on a prefix of the most
\* recent entries' raw text.  No entries: a toast.  Online: the batch of
\* openaiStartMsg and the inference call; offline: the heuristic schema travels
\* as a redetectMsg.
KeyRedetect ==
    /\ UpdateIdle
    /\ nRedetect < MaxRedetect
    /\ nRedetect' = nRedetect + 1
    /\ LET entries == Snapshot(ring).entries
           n       == Len(entries)
           lines   == RawOf(LastK(entries, Min(n, RedetectWindow)))
           g       == Heuristics(SubSeq(lines, 1, Min(RedetectSample, Len(lines))))
       IN IF n = 0
          THEN /\ lastMsg' = "no data"
               /\ UNCHANGED <<redetects, infer>>
          ELSE IF cfgOpts.online
          THEN /\ infer' = infer + 1
               /\ UNCHANGED <<redetects, lastMsg>>
          ELSE /\ redetects' = Append(redetects, g.schema)
               /\ UNCHANGED <<infer, lastMsg>>
    /\ UNCHANGED <<ring, rghost, mLines, mState, mFollow, mSchema, mParser, cfgSource, file,
                   rd, det, tick, swap, cfgOpts, cache, dones, cacheIO,
                   quit, nLines, nErrs, lost, torn>>

\* applyNewSchema, lines 474-487: re-parse the old entries into the new Ring
RECURSIVE Reparse(_, _, _)
Reparse(nr, p, old) ==
    IF old = <<>> THEN nr
    ELSE Reparse(Push(nr, Parse(p, Head(old).raw)), p, Tail(old))

\* applyNewSchema, lines 462-487: m.schema = s, m.parser = NewParser(s), then
\* old := m.ring.Snapshot() and the re-parse of old into the local Ring nr
ApplyNewSchemaCopy(s, reason) ==
    /\ mSchema' = s
    /\ mParser' = NewParser(s)
    /\ swap' = [pc |-> "copied",
                nr |-> Reparse(NewRing(MaxBuffer), NewParser(s), Snapshot(ring).entries),
                reason |-> reason]

\* case redetectMsg: m.applyNewSchema(msg.schema, "Re-detect"), up to the copy
RedetectMsg ==
    /\ UpdateIdle
    /\ redetects # <<>>
    /\ ApplyNewSchemaCopy(Head(redetects), "Re-detect")
    /\ redetects' = Tail(redetects)
    /\ UNCHANGED <<ring, rghost, mLines, mState, mFollow, cfgSource, file, rd, det, tick,
                   ivars, quit, nLines, nErrs, nRedetect, lost, torn>>

\* an inference call in flight returns a schema: openaiDoneMsg{ok: true}
InferReply ==
    /\ Alive
    /\ infer > 0
    /\ infer' = infer - 1
    /\ dones' = Append(dones, [ok |-> TRUE, schema |-> aiSchema, err |-> ""])
    /\ UNCHANGED <<ring, rghost, mLines, mState, mFollow, mSchema, mParser, cfgSource,
                   file, rd, det, tick, redetects, swap, cfgOpts, cache, lastMsg,
                   cacheIO, quit, nLines, nErrs, nRedetect, lost, torn>>

\* the call returns an error (network, malformed response):
\* openaiDoneMsg{ok: false}
InferFail ==
    /\ Alive
    /\ infer > 0
    /\ infer' = infer - 1
    /\ dones' = Append(dones, [ok |-> FALSE, schema |-> NoSchema, err |-> "error"])
    /\ UNCHANGED <<ring, rghost, mLines, mState, mFollow, mSchema, mParser, cfgSource,
                   file, rd, det, tick, redetects, swap, cfgOpts, cache, lastMsg,
                   cacheIO, quit, nLines, nErrs, nRedetect, lost, torn>>

\* a call without a deadline
InferTimeoutNever == FALSE

\* the deadline of context.WithTimeout(m.ctx, OpenAITimeoutSec) passes: the
\* call returns the context's error
InferTimeout ==
    /\ Alive
    /\ infer > 0
    /\ infer' = infer - 1
    /\ dones' = Append(dones, [ok |-> FALSE, schema |-> NoSchema, err |-> "deadline"])
    /\ UNCHANGED <<ring, rghost, mLines, mState, mFollow, mSchema, mParser, cfgSource,
                   file, rd, det, tick, redetects, swap, cfgOpts, cache, lastMsg,
                   cacheIO, quit, nLines, nErrs, nRedetect, lost, torn>>

\* a handler that applies whatever schema the message carries
DoneAppliesAlways(msg) == TRUE

\* if msg.ok
DoneApplies(msg) == msg.ok

\* case openaiDoneMsg: on ok, m.applyNewSchema(msg.schema, "OpenAI") up to the
\* copy; otherwise only the status line changes
OpenAIDoneMsg ==
    /\ UpdateIdle
    /\ dones # <<>>
    /\ dones' = Tail(dones)
    /\ IF DoneApplies(Head(dones))
       THEN /\ ApplyNewSchemaCopy(Head(dones).schema, "OpenAI")
            /\ UNCHANGED lastMsg
       ELSE /\ lastMsg' = "OpenAI failed"
            /\ UNCHANGED <<mSchema, mParser, swap>>
    /\ UNCHANGED <<ring, rghost, mLines, mState, mFollow, cfgSource, file, rd, det, tick,
                   redetects, cfgOpts, cache, infer, cacheIO,
                   quit, nLines, nErrs, nRedetect, lost, torn>>

\* applyNewSchema, line 511: m.ring = nr, and the rest of the handler: the
\* status line and, after inference, detectSaveSchema(m.cfg.FilePath, m.schema)
ApplyNewSchemaSwap ==
    /\ Alive
    /\ swap.pc = "copied"
    /\ ring' = swap.nr
    /\ swap' = NoSwap
    /\ IF swap.reason = "OpenAI"
       THEN /\ lastMsg' = "OpenAI schema"
            /\ IF UseCache
               THEN /\ cache' = mSchema
                    /\ cacheIO' = [cacheIO EXCEPT !.written = TRUE]
               ELSE UNCHANGED <<cache, cacheIO>>
       ELSE /\ lastMsg' = "Schema updated"
            /\ UNCHANGED <<cache, cacheIO>>
    /\ UNCHANGED <<rghost, mLines, mState, mFollow, mSchema, mParser, cfgSource, file,
                   rd, det, tick, redetects, cfgOpts, infer, dones,
                   quit, nLines, nErrs, nRedetect, lost, torn>>

\* an offline session: no inference call is ever started
Next ==
    \/ \E g \in Readers, k \in LineKinds : ReaderScanLine(g, k)
    \/ \E g \in Readers : ReaderScanEOF(g)
    \/ \E g \in Readers : ReaderScanErr(g)
    \/ \E g \in Readers : ReaderSend(g)
    \/ \E g \in Readers : ReaderSendErr(g)
    \/ \E g \in Readers, k \in LineKinds : ReaderSelectLine(g, k)
    \/ \E g \in Readers : ReaderSelectErr(g)
    \/ \E g \in Readers : ReaderSelectDone(g)
    \/ \E g \in Detectors : DetRecv(g)
    \/ \E g \in Detectors : DetClosed(g)
    \/ \E g \in Detectors : DetTimer(g)
    \/ \E g \in Detectors : DetHeuristics(g)
    \/ \E g \in Detectors : DetNewParser(g)
    \/ \E g \in Detectors : DetReplay(g)
    \/ TickStart
    \/ TickLine
    \/ TickErr
    \/ KeyPause
    \/ KeyFollow
    \/ KeyRedetect
    \/ RedetectMsg
    \/ ApplyNewSchemaSwap

Spec == Init /\ [][Next]_vars

\* an online session on a file, not followed at first
InferNext ==
    \/ \E g \in Readers, k \in LineKinds : ReaderScanLine(g, k)
    \/ \E g \in Readers : ReaderScanEOF(g)
    \/ \E g \in Readers : ReaderSend(g)
    \/ \E g \in Readers, k \in LineKinds : ReaderSelectLine(g, k)
    \/ \E g \in Detectors : DetRecv(g)
    \/ \E g \in Detectors : DetClosed(g)
    \/ \E g \in Detectors : DetTimer(g)
    \/ \E g \in Detectors : DetHeuristics(g)
    \/ \E g \in Detectors : DetNewParser(g)
    \/ \E g \in Detectors : DetReplay(g)
    \/ \E g \in Detectors : DetReturnInfer(g)
    \/ \E g \in Detectors : DetReturnDropped(g)
    \/ TickStart
    \/ TickLine
    \/ TickErr
    \/ KeyFollow
    \/ KeyRedetect
    \/ InferReply
    \/ InferFail
    \/ InferTimeout
    \/ OpenAIDoneMsg
    \/ ApplyNewSchemaSwap

InferSpec == InferInit /\ [][InferNext]_vars

\* the deadline of a call in flight passes; replies, key presses and the
\* scheduling of everything else are under no obligation here
InferFairSpec == InferInit /\ [][InferNext]_vars /\ WF_vars(InferTimeout)

\* goroutines of a session, counting the restarts
Goroutines == 1..(MaxRestarts + 1)

\* The Go scheduler runs every goroutine that can run, timers fire, tick
\* messages and queued messages reach Update, and reads from the source return.
\* Key presses and signals are under no obligation.
Fairness ==
    /\ \A g \in Goroutines : WF_vars(IF g \in Readers THEN ReaderStep(g) ELSE FALSE)
    /\ \A g \in Goroutines : WF_vars(IF g \in Detectors THEN DetStep(g) ELSE FALSE)
    /\ WF_vars(TickStart)
    /\ WF_vars(TickLine)
    /\ WF_vars(TickErr)
    /\ WF_vars(RedetectMsg)
    /\ WF_vars(ApplyNewSchemaSwap)

FairSpec == Init /\ [][Next]_vars /\ Fairness

(***************************************************************************)
(* Properties of the Ring (checked under RingSpec)                         *)
(***************************************************************************)
\* no caller is between Lock and Unlock
Quiescent == muW = 0

\* C5: after N completed Push calls on a newly created Ring of capacity C,
\* Snapshot returns exactly the last min(N, C) entries pushed, oldest first.
\* Stated of the Ring between calls and of every Snapshot a caller holds.
C5_SnapshotLastPushed ==
    fresh =>
      /\ Quiescent =>
           Snapshot(ring).entries = LastK(hist, Min(Len(hist), ring.cap))
      /\ \A c \in Callers :
           result[c].taken =>
             result[c].entries =
               LastK(SubSeq(hist, 1, result[c].total),
                     Min(result[c].total, result[c].cap))

\* a caller holds a Snapshot taken after more pushes than the capacity
C5_Witness ==
    /\ fresh
    /\ \E c \in Callers :
         /\ result[c].taken
         /\ result[c].total > result[c].cap
         /\ Len(result[c].entries) = result[c].cap

\* what one Push call did to the counters, seen at its return
PushReturns(c) == cpc[c] = "count" /\ cpc'[c] = "idle"

\* C6: after N Push calls totalIngested = N and, on a newly created Ring,
\* totalDropped = max(0, N - C); every Push adds exactly one to totalIngested
\* and adds one to totalDropped if and only if the Ring was at capacity when
\* the Push began.
C6_Counters ==
    /\ [](Quiescent =>
            /\ ring.total = Len(hist)
            /\ fresh => ring.dropped = Max(0, Len(hist) - ring.cap))
    /\ [][\A c \in Callers :
            PushReturns(c) =>
              /\ ring'.total = cbegin[c].total + 1
              /\ ring'.dropped = cbegin[c].dropped
                    + (IF cbegin[c].size = cbegin[c].cap THEN 1 ELSE 0)]_vars

\* more pushes than slots on a new Ring: something was dropped
C6_Witness ==
    /\ fresh
    /\ Quiescent
    /\ Len(hist) > ring.cap
    /\ ring.dropped > 0

\* C7: in every reachable state, under every interleaving of Push, Snapshot,
\* ClearVisible and Resize, 0 <= size <= capacity, and no Snapshot returns
\* more entries than the capacity it was taken under.
C7_SizeWithinCapacity ==
    /\ 0 <= ring.size
    /\ ring.size <= ring.cap
    /\ \A c \in Callers :
         result[c].taken => Len(result[c].entries) <= result[c].cap

\* a full Ring after a Resize, with a full-length Snapshot in a caller's hands
C7_Witness ==
    /\ resized # "no"
    /\ ring.size = ring.cap
    /\ \E c \in Callers :
         result[c].taken /\ Len(result[c].entries) = result[c].cap

\* caller c's Snapshot returns
SnapshotReturns(c) == cpc[c] = "snap" /\ cpc'[c] = "idle"

\* C8: a Snapshot is a point-in-time copy: entries and both counters are those
\* of the Ring as left by the calls completed so far (never a Push that has
\* stored its entry but not yet counted it), and a Snapshot in a caller's
\* hands is not changed by what other callers do afterwards.
C8_SnapshotPointInTime ==
    /\ [][\A c \in Callers :
            SnapshotReturns(c) =>
              /\ result'[c].entries = abs.entries
              /\ result'[c].total = abs.total
              /\ result'[c].dropped = abs.dropped]_vars
    /\ [][\A c \in Callers :
            (result[c].taken /\ cpc[c] = "idle" /\ cpc'[c] = "idle")
              => result'[c] = result[c]]_vars

\* a caller holds a Snapshot while the other caller is inside Push
C8_Witness ==
    \E c, d \in Callers :
      /\ result[c].taken
      /\ result[c].total >= 1
      /\ cpc[d] = "count"

\* caller c's Resize returns
ResizeReturns(c) == cpc[c] = "resize" /\ cpc'[c] = "idle"

\* C9: Resize(n) leaves Snapshot returning exactly the most recent
\* min(size, n) entries in their original order, and later Pushes evict
\* according to the new capacity.
C9_ResizeKeepsMostRecent ==
    /\ [][\A c \in Callers :
            ResizeReturns(c) =>
              /\ ring'.cap = carg[c]
              /\ Snapshot(ring').entries =
                   LastK(Snapshot(ring).entries, Min(ring.size, carg[c]))]_vars
    /\ []((resized # "no" /\ Quiescent) =>
            /\ Snapshot(ring).entries = abs.entries
            /\ Len(abs.entries) <= ring.cap)

\* a Resize dropped entries and a later Push evicted under the new capacity
C9_Witness == resized = "evicted" /\ Quiescent

(***************************************************************************)
(* Properties of the session (checked under Spec and FairSpec)             *)
(***************************************************************************)
\* the entries a Snapshot of the session's Ring returns
RingEntries == Snapshot(ring).entries

\* C1: in a running session no line is lost; in particular no line is
\* received from the line channel and then discarded, also not while detection
\* is still in progress and no Parser exists yet.
C1_NoLineDiscarded == lost = {}

\* C2: entries are in the Ring in the order in which their reader emitted the
\* lines: of two entries for lines of the same reader, the one emitted first
\* comes first in every Snapshot, under every interleaving of the detection
\* goroutine and the tick drain.
C2_RingInEmissionOrder ==
    \A i, j \in 1..Len(RingEntries) :
        (i < j /\ RingEntries[i].raw.src = RingEntries[j].raw.src)
            => RingEntries[i].raw.id < RingEntries[j].raw.id

\* C3: once a reader's cancellation has fired, the reader eventually stops and
\* closes both its line channel and its error channel, whether or not anything
\* still receives from them (or the program has ended).
C3_CancelledReaderCloses ==
    \A g \in Goroutines :
        []((IF g \in Readers THEN Cancelled(g) ELSE FALSE)
             => <>(quit \/ (IF g \in Readers
                            THEN rd[g].outClosed /\ rd[g].errsClosed ELSE FALSE)))

\* the tick handler is inside one of its two loops and can take its next step
\* without waiting for anybody
TickNonBlocking ==
    Alive => /\ (tick.pc = "lines") => ENABLED TickLine
             /\ (tick.pc = "errs") => ENABLED TickErr

\* the loop counters and the receives of the running handler are within the caps
TickBounded ==
    /\ (tick.pc = "lines") => (tick.n <= tick.i /\ tick.i <= TickLineLimit)
    /\ (tick.pc = "errs") => (tick.n <= tick.i /\ tick.i <= TickErrLimit)

\* every step of the handler moves it forward: into a loop, one iteration on,
\* from the line loop to the error loop, or out of the error loop with the
\* next tick scheduled
TickAdvances ==
    (tick' # tick) =>
        \/ tick.pc = "wait" /\ tick'.pc \in {"lines", "errs"}
                            /\ tick'.i = 0 /\ tick'.n = 0
        \/ tick.pc = "lines" /\ tick'.pc = "lines" /\ tick'.i = tick.i + 1
                             /\ tick'.n \in {tick.n, tick.n + 1}
        \/ tick.pc = "lines" /\ tick'.pc = "errs" /\ tick'.i = 0 /\ tick'.n = 0
        \/ tick.pc = "errs" /\ tick'.pc = "errs" /\ tick'.i = tick.i + 1
                            /\ tick'.n = tick.n + 1
        \/ tick.pc = "errs" /\ tick'.pc = "wait"

\* C4: handling one tick always terminates: it never waits (every receive is
\* non-blocking, whether the channel is empty, non-empty or closed), every step
\* advances a loop counter that is capped, so it receives at most TickLineLimit
\* lines and TickErrLimit errors, and it ends with the next tick scheduled.
C4_TickTerminates == [][TickNonBlocking /\ TickBounded /\ TickAdvances]_vars

\* the line loop has received its full quota and stops although another line
\* is queued
C4_Witness ==
    /\ tick.pc = "lines"
    /\ tick.n = TickLineLimit
    /\ rd[mLines].out # <<>>

\* a follow toggle has just been handled
FollowToggled == mFollow' # mFollow

\* C12: toggling follow mode cancels the current reader's context and starts a
\* new reader under a fresh cancellation scope (not cancelled, new empty
\* channels, the one m.lines now names), and leaves the Ring exactly as it was:
\* no entry removed, reordered or modified.
C12_FollowToggleKeepsRing ==
    [][FollowToggled =>
        /\ rd'[mLines].cancelled
        /\ mLines' = Len(rd) + 1
        /\ Len(rd') = Len(rd) + 1
        /\ ~rd'[mLines'].cancelled
        /\ rd'[mLines'].out = <<>> /\ ~rd'[mLines'].outClosed
        /\ rd'[mLines'].errs = <<>> /\ ~rd'[mLines'].errsClosed
        /\ \A g \in Readers : g # mLines => rd'[g] = rd[g]
        /\ ring' = ring]_vars

\* the toggle has been handled while the Ring held entries
C12_Witness ==
    /\ Len(rd) > 1
    /\ rd[mLines] = NewReader(rd[mLines].kind)
    /\ det[Len(det)] = NewDetector
    /\ RingEntries # <<>>

\* C13: switching follow mode on a file source causes no duplicate
\* re-ingestion: no line of the file has two entries in the Ring, whatever
\* follow toggles happened.
C13_NoDuplicateIngestion ==
    (cfgSource = "file") =>
        \A i, j \in 1..Len(RingEntries) :
            (i < j) => RingEntries[i].raw.id # RingEntries[j].raw.id

\* C10: the Schema/Parser pair is swapped atomically: no line is ever parsed
\* while the session's Schema has been replaced and the Parser still belongs
\* to the previous Schema (or the reverse).
C10_NoTornParse == torn = {}


(***************************************************************************)
(* Schema swap                                                             *)
(***************************************************************************)

\* the step m.ring = nr that ends applyNewSchema
SwapInstalled == swap.pc = "copied" /\ swap'.pc = "idle"

\* C11: a schema swap that re-parses the Ring leaves the sequence of raw texts
\* in the Snapshot as it was immediately before the swap, also when lines are
\* pushed while the swap is under way.
C11_SwapKeepsRawTexts ==
    [][SwapInstalled =>
         RawOf(Snapshot(ring').entries) = RawOf(Snapshot(ring).entries)]_vars


(***************************************************************************)
(* Detection window                                                        *)
(***************************************************************************)

\* the channel the detection goroutines receive from is closed and drained
SourceClosed == rd[mLines].outClosed /\ rd[mLines].out = <<>>

ReplayStep(g) == det[g].pc = "replay" /\ det'[g] # det[g]

\* C18: when detection completes, every line collected during the window, not
\* only the classification sample, is parsed with the new Parser and pushed
\* into the Ring in the order collected.
C18_ReplayPushesEveryLine ==
    [][\A g \in Detectors :
         /\ (det[g].pc = "newparser" /\ det'[g].pc = "replay") =>
              /\ det'[g].k = 1
              /\ det'[g].buffered = det[g].buffered
              /\ det'[g].buffered # <<>>
              /\ det'[g].p = NewParser(mSchema)
         /\ ReplayStep(g) =>
              /\ det[g].k \in 1..Len(det[g].buffered)
              /\ LET es == Snapshot(ring').entries
                 IN /\ es # <<>>
                    /\ es[Len(es)] = Parse(det[g].p, det[g].buffered[det[g].k])
              /\ IF det[g].k < Len(det[g].buffered)
                 THEN /\ det'[g].pc = "replay"
                      /\ det'[g].k = det[g].k + 1
                      /\ det'[g].buffered = det[g].buffered
                      /\ det'[g].p = det[g].p
                 ELSE det'[g].pc \in {"done", "return"}]_vars

\* the replay loop has gone past the classification sample
C18_Witness ==
    \E g \in Detectors :
        /\ det[g].pc = "replay"
        /\ det[g].k > maxSample
        /\ Len(RingEntries) >= maxSample


(***************************************************************************)
(* External inference and the schema cache                                 *)
(***************************************************************************)

FailureReported == dones # <<>> /\ ~Head(dones).ok /\ dones' = Tail(dones)

\* C15: when an inference call fails (deadline, error, malformed response)
\* the Schema, the Parser and the Ring are exactly what they were before the
\* failure was reported, nothing is rolled back, and the failure shows as the
\* status message.
C15_FailureKeepsState ==
    [][FailureReported =>
         /\ mSchema' = mSchema
         /\ mParser' = mParser
         /\ ring' = ring
         /\ swap' = swap
         /\ cache' = cache
         /\ lastMsg' = "OpenAI failed"]_vars

\* a failure has been reported in a session that holds entries
C15_Witness ==
    /\ lastMsg = "OpenAI failed"
    /\ RingEntries # <<>>
    /\ mSchema # NoSchema
    /\ mParser = NewParser(mSchema)

C19_CacheHitUsesCachedSchema ==
    [][\A g \in Detectors :
         det[g].cacheHit =>
           /\ (det[g].pc = "newparser" /\ det'[g].pc = "replay") =>
                det'[g].p = NewParser(det[g].cs)
           /\ (det'[g] # det[g]) => infer' = infer
           /\ det'[g].pc # "return"]_vars

\* C20: with --no-cache the schema cache is never read and never written.
C20_NoCacheNeverTouched ==
    cfgOpts.noCache => (~cacheIO.read /\ ~cacheIO.written)

\* a --no-cache session after a follow toggle, with a detection completed and
\* an inferred schema applied
C20_Witness ==
    /\ cfgOpts.noCache
    /\ Len(rd) > 1
    /\ \E g \in Detectors : det[g].pc = "done"
    /\ lastMsg = "OpenAI schema"
    /\ mSchema = aiSchema


(***************************************************************************)
(* The classifier on its own: detect.Heuristics and the forced format      *)
(***************************************************************************)
\* everything but the single-function call at rest
Rest ==
    /\ ring = NewRing(1)
    /\ muW = 0 /\ muR = {}
    /\ cpc = [c \in Callers |-> "idle"]
    /\ carg = [c \in Callers |-> 0]
    /\ cbegin = [c \in Callers |-> NoBegin]
    /\ result = [c \in Callers |-> NoResult]
    /\ hist = <<>>
    /\ abs = [entries |-> <<>>, total |-> 0, dropped |-> 0]
    /\ fresh = TRUE
    /\ resized = "no"
    /\ PIdle

\* what a line's text can look like to the four recognisers: blank; matching
\* none; a JSON object; a JSON object with k= inside a value; logfmt pairs;
\* an Apache combined line; an RFC 5424 syslog line
ClassKinds == {"blank", "plain", "json", "jsonkv", "logfmt", "apache", "syslog"}

\* the sample with the given kinds of line, in order
MkSample(ks) == [i \in DOMAIN ks |-> [id |-> i, kind |-> ks[i], src |-> 0]]

Samples == UNION {[1..n -> ClassKinds] : n \in 0..MaxSampleLen}

\* cfg.ForceFormat: "" or a value --format accepts
ForceFormats == {"", "json", "regex", "logfmt", "apache", "syslog"}

\* setupPipeline, lines 87-99: the switch on m.cfg.ForceFormat
ForcedSchema(force, s) ==
    IF force = "json" THEN [s EXCEPT !.parseStrategy = "json"]
    ELSE IF force = "logfmt" THEN [s EXCEPT !.parseStrategy = "logfmt"]
    ELSE IF force = "apache" THEN Heuristics(MkSample(<<"apache">>)).schema
    ELSE IF force = "syslog" THEN Heuristics(MkSample(<<"syslog">>)).schema
    ELSE s

\* setupPipeline, lines 84-114 with no cache entry: the Parser of a detection
DetectParser(force, sample) ==
    NewParser(ForcedSchema(force, Heuristics(sample).schema))

ClassInit ==
    /\ fin \in [fn : {"Heuristics", "Detect"}, ks : Samples, force : ForceFormats]
    /\ (fin.fn = "Heuristics") => (fin.force = "")
    \* a detection has buffered at least one line
    /\ (fin.fn = "Detect") => (fin.ks # <<>>)
    /\ fout = NoOut
    /\ Rest

\* detect.Heuristics(sample) returns
HeuristicsCall ==
    /\ fin.fn = "Heuristics"
    /\ fout = NoOut
    /\ fout' = [fn |-> "Heuristics", guess |-> Heuristics(MkSample(fin.ks))]
    /\ UNCHANGED <<fin, rvars, pvars>>

\* the detection goroutine has classified its sample and built the Parser
DetectCall ==
    /\ fin.fn = "Detect"
    /\ fout = NoOut
    /\ fout' = [fn |-> "Detect", parser |-> DetectParser(fin.force, MkSample(fin.ks))]
    /\ UNCHANGED <<fin, rvars, pvars>>

ClassNext ==
    \/ HeuristicsCall
    \/ DetectCall

ClassSpec == ClassInit /\ [][ClassNext]_vars

\* the strategy each accepted --format value stands for
ForcedStrategy(force) ==
    IF force = "json" THEN "json"
    ELSE IF force = "logfmt" THEN "logfmt"
    ELSE "regex"

\* C21: with a forced format (json, regex, logfmt, apache, syslog) the Parser
\* constructed at detection uses the forced format's strategy, whatever the
\* sample looked like.
C21_ForcedFormatOverrides ==
    (fout.fn = "Detect" /\ fin.force # "") =>
        /\ fout.parser.strategy = ForcedStrategy(fin.force)
        /\ fout.parser.schema.parseStrategy = ForcedStrategy(fin.force)

\* non-blank lines of a sample and the hits of each recogniser
NonBlank(ks) == {i \in DOMAIN ks : ~IsBlank(ks[i])}
JsonHits(ks) == Cardinality({i \in NonBlank(ks) : LooksJSON(ks[i])})
LogfmtHits(ks) == Cardinality({i \in NonBlank(ks) : LooksLogfmt(ks[i])})
ApacheHits(ks) == Cardinality({i \in NonBlank(ks) : LooksApache(ks[i])})
SyslogHits(ks) == Cardinality({i \in NonBlank(ks) : LooksSyslog(ks[i])})

\* hits reach half of the non-blank lines
AtLeastHalf(hits, ks) == 2 * hits >= Cardinality(NonBlank(ks))

\* C22: the format with the strictly highest hit count is selected provided
\* the count is at least half the non-blank lines; neither JSON nor logfmt is
\* selected on a count below that half (ties and counts below the threshold
\* fall through to the formats after them).
C22_ClassifierRule ==
    (fout.fn = "Heuristics") =>
        LET ks == fin.ks
            j  == JsonHits(ks)
            l  == LogfmtHits(ks)
            a  == ApacheHits(ks)
            y  == SyslogHits(ks)
            R  == fout.guess.schema.formatName
        IN /\ (j > l /\ j > a /\ j > y /\ AtLeastHalf(j, ks)) => R = "json_lines"
           /\ (l > j /\ l > a /\ l > y /\ AtLeastHalf(l, ks)) => R = "logfmt"
           /\ (a > j /\ a > l /\ a > y /\ AtLeastHalf(a, ks)) => R = "apache_combined"
           /\ (y > j /\ y > l /\ y > a /\ AtLeastHalf(y, ks)) => R = "syslog_rfc5424"
           /\ (R = "json_lines") => AtLeastHalf(j, ks)
           /\ (R = "logfmt") => AtLeastHalf(l, ks)

\* C23: a sample whose non-blank lines are all JSON objects is classified
\* json_lines, and one whose non-blank lines are all logfmt pairs is
\* classified logfmt, whatever the values inside the lines contain.
C23_UniformSampleClassified ==
    (fout.fn = "Heuristics" /\ NonBlank(fin.ks) # {}) =>
        /\ (\A i \in NonBlank(fin.ks) : fin.ks[i] \in {"json", "jsonkv"})
              => fout.guess.schema.formatName = "json_lines"
        /\ (\A i \in NonBlank(fin.ks) : fin.ks[i] = "logfmt")
              => fout.guess.schema.formatName = "logfmt"


(***************************************************************************)
(* The parsers on their own: parse.NewParser, Parse, normalizeLevel        *)
(*                                                                         *)
(* A string is the sequence of its characters.                             *)
(***************************************************************************)
LowerChars == <<"a", "b", "c", "d", "e", "f", "g", "h", "i", "j", "k", "l", "m",
                "n", "o", "p", "q", "r", "s", "t", "u", "v", "w", "x", "y", "z">>
UpperChars == <<"A", "B", "C", "D", "E", "F", "G", "H", "I", "J", "K", "L", "M",
                "N", "O", "P", "Q", "R", "S", "T", "U", "V", "W", "X", "Y", "Z">>

\* unicode.ToUpper on the characters in use
ToUpperChar(c) ==
    IF \E i \in DOMAIN LowerChars : LowerChars[i] = c
    THEN UpperChars[CHOOSE i \in DOMAIN LowerChars : LowerChars[i] = c]
    ELSE c

\* strings.ToUpper
ToUpper(s) == [i \in DOMAIN s |-> ToUpperChar(s[i])]

\* splitLogfmt, line 197: c == ' ' || c == '\t'
IsSpace(c) == c \in {" ", "\t"}

\* the white space strings.TrimSpace cuts
IsWhite(c) == c \in {" ", "\t", "\n", "\r"}

\* strings.TrimSpace
RECURSIVE TrimLeft(_)
TrimLeft(s) == IF s # <<>> /\ IsWhite(Head(s)) THEN TrimLeft(Tail(s)) ELSE s
RECURSIVE TrimRight(_)
TrimRight(s) ==
    IF s # <<>> /\ IsWhite(s[Len(s)]) THEN TrimRight(SubSeq(s, 1, Len(s) - 1)) ELSE s
TrimSpace(s) == TrimRight(TrimLeft(s))

\* the strings the parsers are tried on
sInfo == <<"i", "n", "f", "o">>
sWarn == <<"w", "a", "r", "n">>
sWarning == <<"w", "a", "r", "n", "i", "n", "g">>
sErr == <<"e", "r", "r">>
sError == <<"e", "r", "r", "o", "r">>
sDebug == <<"d", "e", "b", "u", "g">>
sTrace == <<"t", "r", "a", "c", "e">>
sFatal == <<"f", "a", "t", "a", "l">>
sCritical == <<"c", "r", "i", "t", "i", "c", "a", "l">>
sNote == <<"n", "o", "t", "e">>
sLevel == <<"l", "e", "v", "e", "l">>
sLvl == <<"l", "v", "l">>
sSeverity == <<"s", "e", "v", "e", "r", "i", "t", "y">>
sTs == <<"t", "s">>
sTime == <<"t", "i", "m", "e">>
sTimestamp == <<"t", "i", "m", "e", "s", "t", "a", "m", "p">>
sMsg == <<"m", "s", "g">>
sLog == <<"l", "o", "g">>
sMessage == <<"m", "e", "s", "s", "a", "g", "e">>
sStatus == <<"s", "t", "a", "t", "u", "s">>

\* a Schema's levelMapping: a set of <<key, value>> pairs (a Go map: range
\* visits the entries in no fixed order)
NoMapping == {}

\* the fixed set of normalizeLevel, lines 235-248
CanonicalLevel(l) ==
    IF l = ToUpper(sTrace) THEN ToUpper(sTrace)
    ELSE IF l = ToUpper(sDebug) THEN ToUpper(sDebug)
    ELSE IF l = ToUpper(sInfo) THEN ToUpper(sInfo)
    ELSE IF l \in {ToUpper(sWarn), ToUpper(sWarning)} THEN ToUpper(sWarn)
    ELSE IF l \in {ToUpper(sError), ToUpper(sErr)} THEN ToUpper(sError)
    ELSE IF l \in {ToUpper(sFatal), ToUpper(sCritical)} THEN ToUpper(sFatal)
    ELSE l

\* a normalizeLevel that leaves the whitespace around the value in place
CleanLevelNoTrim(lvl) == ToUpper(lvl)

\* line 229: l := strings.ToUpper(strings.TrimSpace(lvl))
CleanLevel(lvl) == ToUpper(TrimSpace(lvl))

\* normalizeLevel(s, lvl): every value the call can return; more than one
\* only when several keys of the mapping match and map to different values
normalizeLevel(mapping, lvl) ==
    LET l    == CleanLevel(lvl)
        hits == {kv \in mapping : ToUpper(kv[1]) = l}
    IN  IF hits # {} THEN {ToUpper(kv[2]) : kv \in hits}
        ELSE {CanonicalLevel(l)}

\* time layouts: RFC3339, the Apache layout of apacheSchema, a layout of the
\* caller's; "" is none
Layouts == {"", "RFC3339", "apache", "custom"}

\* a fallbackLayout that prefers the Schema's layout to the forced one
fallbackLayoutSchemaFirst(a, forced) ==
    IF a # "" THEN a
    ELSE IF forced # "" THEN forced
    ELSE "RFC3339"

\* fallbackLayout(a, forced)
fallbackLayout(a, forced) ==
    IF forced # "" THEN forced
    ELSE IF a # "" THEN a
    ELSE "RFC3339"

\* no timestamp: the nil *time.Time
NoTime == [set |-> FALSE, at |-> ""]

\* the instants timestamps denote
Instants == {"1", "2"}

\* the text that is well-formed under layout and denotes instant at; any
\* other text is well-formed under no layout
TimeText(layout, at) == <<layout, at>>
sBadTime == <<"x", "x">>

\* time.Parse(layout, val): the instant, or the error
TimeParse(layout, val) ==
    IF Len(val) = 2 /\ val[1] = layout /\ val[2] \in Instants
    THEN [set |-> TRUE, at |-> val[2]]
    ELSE NoTime


\* values of a decoded JSON object and of LogEntry.Fields.  A string: its
\* text and, when the trimmed text is itself a JSON object, that object; a
\* number: its digits
Str(x) == [t |-> "str", s |-> x, isObj |-> FALSE, obj |-> <<>>]
Num(x) == [t |-> "num", s |-> x, isObj |-> FALSE, obj |-> <<>>]
Payload(o) == [t |-> "str", s |-> <<"{", "}">>, isObj |-> TRUE, obj |-> o]
Absent == [t |-> "absent", s |-> <<>>, isObj |-> FALSE, obj |-> <<>>]

\* the map with the given <<key, value>> pairs, without the absent ones
MkObj(kvs) ==
    LET present == {kv \in kvs : kv[2] # Absent}
    IN  [k \in {kv[1] : kv \in present} |-> (CHOOSE kv \in present : kv[1] = k)[2]]

\* for ik, iv := range inner { e.Fields[ik] = iv }
MergeInto(fields, inner) ==
    [k \in DOMAIN fields \cup DOMAIN inner |->
        IF k \in DOMAIN inner THEN inner[k] ELSE fields[k]]

\* getStringPaths(m, keys)
RECURSIVE getStringPaths(_, _)
getStringPaths(m, keys) ==
    IF keys = <<>> THEN <<>>
    ELSE IF Head(keys) \in DOMAIN m /\ m[Head(keys)].t = "str" THEN m[Head(keys)].s
    ELSE getStringPaths(m, Tail(keys))

TsKeys == <<sTs, sTime, sTimestamp>>
LevelKeys == <<sLevel, sLvl, sSeverity>>
innerKeys == <<sLog, sMsg, sMessage>>

\* JSONParser.Parse, lines 56-60 and 82: the first of log, msg, message that
\* holds a string which unmarshals as a JSON object (<<>>: none)
RECURSIVE PayloadKey(_, _)
PayloadKey(m, keys) ==
    IF keys = <<>> THEN <<>>
    ELSE IF /\ Head(keys) \in DOMAIN m
            /\ m[Head(keys)].t = "str"
            /\ m[Head(keys)].isObj
         THEN Head(keys)
    ELSE PayloadKey(m, Tail(keys))

\* the Parser's layout field
LayoutOf(p, forced) == fallbackLayout(p.schema.timeLayout, forced)

\* JSONParser.Parse(line): the entries the call can return.  line is
\* [text, valid, m]: m is what json.Unmarshal decodes when the text is valid
JSONParse(p, forced, line) ==
    LET layout   == LayoutOf(p, forced)
        m        == IF line.valid THEN line.m ELSE <<>>
        key      == PayloadKey(m, innerKeys)
        hasInner == key # <<>>
        inner    == IF hasInner THEN m[key].obj ELSE <<>>
        fields   == IF hasInner THEN MergeInto(m, inner) ELSE m
        its      == getStringPaths(inner, TsKeys)
        t1       == IF hasInner /\ its # <<>> THEN TimeParse(layout, its) ELSE NoTime
        ilvl     == ToUpper(getStringPaths(inner, LevelKeys))
        l1       == IF hasInner /\ ilvl # <<>>
                    THEN normalizeLevel(p.schema.levelMapping, ilvl) ELSE {<<>>}
        ts       == getStringPaths(m, TsKeys)
        t2       == IF ts # <<>> /\ TimeParse(layout, ts).set
                    THEN TimeParse(layout, ts) ELSE t1
        lvl      == ToUpper(getStringPaths(m, LevelKeys))
        l2       == IF lvl # <<>>
                    THEN normalizeLevel(p.schema.levelMapping, lvl) ELSE l1
    IN  {[raw |-> line.text, fields |-> fields, ts |-> t2, level |-> l,
          formatName |-> p.schema.formatName] : l \in l2}


\* the Schemas the parsers are tried with: jsonSchema() and logfmtSchema()
\* with their time layout and level mapping
CannedMapping ==
    {<<sWarn, ToUpper(sWarn)>>, <<sWarning, ToUpper(sWarn)>>, <<sInfo, ToUpper(sInfo)>>,
     <<sError, ToUpper(sError)>>, <<sDebug, ToUpper(sDebug)>>,
     <<sFatal, ToUpper(sFatal)>>, <<sTrace, ToUpper(sTrace)>>}

\* a regexPattern: whether regexp.Compile accepts it, and the names of its
\* groups ("" for an unnamed one)
NoPattern == [compiles |-> FALSE, names |-> <<>>]

RichSchema(s, layout, mapping, pattern) ==
    [formatName |-> s.formatName, parseStrategy |-> s.parseStrategy,
     timeLayout |-> layout, levelMapping |-> mapping, regexPattern |-> pattern]

\* payloads: objects with some of level, ts, msg
InnerObjs ==
    {MkObj({<<sLevel, a>>, <<sTs, b>>, <<sMsg, c>>}) :
        a \in {Absent, Str(sInfo), Str(sError)},
        b \in {Absent, Str(TimeText("RFC3339", "1")), Str(sBadTime)},
        c \in {Absent, Str(sNote)}}

\* what log and msg hold: nothing, a plain string, a payload
WrapperVals == {Absent, Str(sNote)} \cup {Payload(o) : o \in InnerObjs}

\* decoded lines: objects with some of log, msg, message, level, ts
JsonObjs ==
    {MkObj({<<sLog, a>>, <<sMsg, b>>, <<sMessage, c>>, <<sLevel, d>>, <<sTs, e>>}) :
        a \in WrapperVals, b \in WrapperVals,
        c \in {Absent, Payload(MkObj({<<sLevel, Str(sDebug)>>}))},
        d \in {Absent, Str(sWarn), Str(sInfo), Num(<<"3", "0">>)},
        e \in {Absent, Str(TimeText("RFC3339", "2")), Str(sBadTime)}}

\* lines for the JSON strategy: JSON objects, and a text that is not JSON
JsonLines ==
    {[text |-> <<"{", "}">>, valid |-> TRUE, m |-> o] : o \in JsonObjs}
    \cup {[text |-> sNote, valid |-> FALSE, m |-> <<>>]}

\* a JSONParser.Parse call with the canned schema and no forced layout
JsonCalls ==
    [fn : {"JSONParse"},
     schema : {RichSchema(jsonSchema, "RFC3339", CannedMapping, NoPattern)},
     forced : {""}, line : JsonLines]

\* JSONParser.Parse returns
JSONParseCall ==
    /\ fin.fn = "JSONParse"
    /\ fout = NoOut
    /\ \E e \in JSONParse(NewParser(fin.schema), fin.forced, fin.line) :
          fout' = [fn |-> "JSONParse", e |-> e]
    /\ UNCHANGED <<fin, rvars, pvars>>


\* res[k] = v on a Go map
Put(res, k, v) == [x \in DOMAIN res \cup {k} |-> IF x = k THEN v ELSE res[x]]

\* splitLogfmt, lines 191-210: the loop from character i on
RECURSIVE SplitFrom(_, _, _, _, _, _)
SplitFrom(s, i, res, cur, inQuote, key) ==
    IF i > Len(s)
    THEN (IF key # <<>> THEN Put(res, key, cur) ELSE res)
    ELSE LET c == s[i] IN
         IF c = "\""
         THEN SplitFrom(s, i + 1, res, cur, ~inQuote, key)
         ELSE IF ~inQuote /\ IsSpace(c)
         THEN (IF key # <<>>
               THEN SplitFrom(s, i + 1, Put(res, key, cur), <<>>, inQuote, <<>>)
               ELSE SplitFrom(s, i + 1, res, cur, inQuote, key))
         ELSE IF ~inQuote /\ c = "="
         THEN SplitFrom(s, i + 1, res, <<>>, inQuote, cur)
         ELSE SplitFrom(s, i + 1, res, Append(cur, c), inQuote, key)

\* splitLogfmt(s)
splitLogfmt(s) == SplitFrom(s, 1, <<>>, <<>>, FALSE, <<>>)

\* pick(m, keys...)
RECURSIVE pick(_, _)
pick(m, keys) ==
    IF keys = <<>> THEN <<>>
    ELSE IF Head(keys) \in DOMAIN m THEN m[Head(keys)]
    ELSE pick(m, Tail(keys))

\* LogfmtParser.Parse(line): the entries the call can return
LogfmtParse(p, forced, line) ==
    LET layout == LayoutOf(p, forced)
        parts  == splitLogfmt(line)
        ts     == pick(parts, TsKeys)
        t      == IF ts # <<>> THEN TimeParse(layout, ts) ELSE NoTime
        lvl    == ToUpper(pick(parts, LevelKeys))
        ls     == IF lvl # <<>> THEN normalizeLevel(p.schema.levelMapping, lvl)
                  ELSE {<<>>}
    IN  {[raw |-> line, fields |-> [k \in DOMAIN parts |-> Str(parts[k])], ts |-> t,
          level |-> l, formatName |-> p.schema.formatName] : l \in ls}

\* the pieces of a logfmt line
LogfmtChunks == {sLevel, sInfo, sWarn, <<"=">>, <<" ">>, <<"\"">>}

RECURSIVE Concat(_)
Concat(ss) == IF ss = <<>> THEN <<>> ELSE Head(ss) \o Concat(Tail(ss))

LogfmtLines == {Concat(cs) : cs \in UNION {[1..n -> LogfmtChunks] : n \in 0..MaxChunks}}

LogfmtCalls ==
    [fn : {"LogfmtParse"},
     schema : {RichSchema(logfmtSchema, "RFC3339", CannedMapping, NoPattern)},
     forced : {""}, line : LogfmtLines]

\* LogfmtParser.Parse returns
LogfmtParseCall ==
    /\ fin.fn = "LogfmtParse"
    /\ fout = NoOut
    /\ \E e \in LogfmtParse(NewParser(fin.schema), fin.forced, fin.line) :
          fout' = [fn |-> "LogfmtParse", e |-> e]
    /\ UNCHANGED <<fin, rvars, pvars>>

IsDigits(v) == v # <<>> /\ \A i \in DOMAIN v : v[i] \in {"0", "1", "2", "3", "4", "5", "6", "7", "8", "9"}

\* strconv.Atoi(val) succeeds: digits, with or without a sign
AtoiOk(v) ==
    \/ IsDigits(v)
    \/ v # <<>> /\ Head(v) \in {"+", "-"} /\ IsDigits(Tail(v))

\* RegexParser.Parse, lines 129-148: the loop over the named groups from i on
RECURSIVE GroupsFrom(_, _, _, _, _)
GroupsFrom(p, layout, names, sub, e) ==
    IF names = <<>> THEN {e}
    ELSE LET name == Head(names)
             val  == Head(sub)
             f1   == Put(e.fields, name, Str(val))
             t    == IF name \in {sTs, sTime, sTimestamp} /\ TimeParse(layout, val).set
                     THEN TimeParse(layout, val) ELSE e.ts
             ls   == IF name \in {sLevel, sLvl, sSeverity}
                     THEN normalizeLevel(p.schema.levelMapping, ToUpper(val))
                     ELSE {e.level}
             f2   == IF name = sStatus /\ AtoiOk(val) THEN Put(f1, name, Num(val)) ELSE f1
         IN  IF name = <<>>
             THEN GroupsFrom(p, layout, Tail(names), Tail(sub), e)
             ELSE UNION {GroupsFrom(p, layout, Tail(names), Tail(sub),
                                    [e EXCEPT !.fields = f2, !.ts = t, !.level = l]) :
                         l \in ls}

\* RegexParser.Parse(line): the entries the call can return.  line is
\* [text, sub]: sub is what FindStringSubmatch yields for the groups of the
\* pattern, <<>> when the pattern does not match
RegexParse(p, forced, line) ==
    LET layout == LayoutOf(p, forced)
        pat    == p.schema.regexPattern
        e0     == [raw |-> line.text, fields |-> <<>>, ts |-> NoTime, level |-> <<>>,
                   formatName |-> p.schema.formatName]
    IN  IF ~pat.compiles \/ line.sub = <<>>
        THEN {[e0 EXCEPT !.fields = Put(<<>>, sMsg, Str(line.text))]}
        ELSE GroupsFrom(p, layout, pat.names, line.sub, e0)

\* patterns: one that does not compile, one with ts, an unnamed group, level
\* and status
RegexPatterns == {NoPattern, [compiles |-> TRUE, names |-> <<sTs, <<>>, sLevel, sStatus>>]}

\* submatches of a line for the four groups
RegexSubs ==
    {<<a, sNote, b, c>> :
        a \in {TimeText("RFC3339", "1"), TimeText("apache", "2"), sBadTime},
        b \in {sInfo, sErr, sNote},
        c \in {<<"2", "0", "0">>, <<"-", "1">>, sNote}}

RegexLines == {[text |-> sNote, sub |-> x] : x \in RegexSubs \cup {<<>>}}

RegexCalls ==
    [fn : {"RegexParse"},
     schema : {RichSchema(apacheSchema, l, NoMapping, pat) :
                 l \in {"", "apache"}, pat \in RegexPatterns},
     forced : {"", "RFC3339"}, line : RegexLines]

\* RegexParser.Parse returns
RegexParseCall ==
    /\ fin.fn = "RegexParse"
    /\ fout = NoOut
    /\ \E e \in RegexParse(NewParser(fin.schema), fin.forced, fin.line) :
          fout' = [fn |-> "RegexParse", e |-> e]
    /\ UNCHANGED <<fin, rvars, pvars>>


(***************************************************************************)
(* One call of a parser                                                    *)
(***************************************************************************)
\* raw level values: the words in some spelling, bare or with white space
\* around them
LevelWords ==
    {sInfo, <<"I", "n", "f", "o">>, sWarn, ToUpper(sWarning), sErr, sError, sDebug,
     sTrace, sFatal, <<"C", "r", "i", "t", "i", "c", "a", "l">>, sNote, <<>>}

LevelTexts ==
    UNION {{w, <<" ">> \o w, w \o <<"\t">>, <<" ">> \o w \o <<"\n">>} : w \in LevelWords}

\* level mappings: none, the canned one, one with a mixed-case value, one
\* with two keys that differ in case only
LevelMappings ==
    {NoMapping, CannedMapping,
     {<<sNote, <<"N", "o", "t", "i", "c", "e">>>>, <<ToUpper(sErr), sFatal>>},
     {<<sWarn, sInfo>>, <<<<"W", "a", "r", "n">>, sDebug>>}}

LevelCalls == [fn : {"normalizeLevel"}, mapping : LevelMappings, lvl : LevelTexts]

\* normalizeLevel returns
NormalizeLevelCall ==
    /\ fin.fn = "normalizeLevel"
    /\ fout = NoOut
    /\ \E l \in normalizeLevel(fin.mapping, fin.lvl) :
          fout' = [fn |-> "normalizeLevel", level |-> l]
    /\ UNCHANGED <<fin, rvars, pvars>>

\* timestamp values: well-formed under one of the layouts, or under none
TimeValues ==
    {TimeText(l, at) : l \in {"RFC3339", "apache", "custom"}, at \in Instants}
    \cup {sBadTime}

\* the JSON line {"ts": v} and the logfmt line ts=v
JsonTsLine(v) == [text |-> <<"{", "}">>, valid |-> TRUE, m |-> MkObj({<<sTs, Str(v)>>})]
LogfmtTsLine(v) == sTs \o <<"=">> \o v

\* calls with a forced layout or none, on Schemas with a layout or none
TimeCalls ==
    [fn : {"JSONParse"},
     schema : {RichSchema(jsonSchema, l, CannedMapping, NoPattern) :
                 l \in {"", "RFC3339", "apache"}},
     forced : {"", "custom"}, line : {JsonTsLine(v) : v \in TimeValues}]
    \cup
    [fn : {"LogfmtParse"},
     schema : {RichSchema(logfmtSchema, l, CannedMapping, NoPattern) :
                 l \in {"", "RFC3339", "apache"}},
     forced : {"", "custom"}, line : {LogfmtTsLine(v) : v \in TimeValues}]

ParseInit ==
    /\ fin \in JsonCalls \cup LogfmtCalls \cup RegexCalls \cup LevelCalls \cup TimeCalls
    /\ fout = NoOut
    /\ Rest

ParseNext == JSONParseCall \/ LogfmtParseCall \/ RegexParseCall \/ NormalizeLevelCall

ParseSpec == ParseInit /\ [][ParseNext]_vars

\* a parser has returned
Parsed == fout.fn \in {"JSONParse", "LogfmtParse", "RegexParse"}

\* the text of the line a parser was called with
LineText == IF fin.fn = "LogfmtParse" THEN fin.line ELSE fin.line.text

\* the line is not valid JSON, holds no key=value pair, or the pattern does
\* not compile or does not match it
Unmatched ==
    \/ fin.fn = "JSONParse" /\ ~fin.line.valid
    \/ fin.fn = "LogfmtParse" /\ \A i \in DOMAIN fin.line : fin.line[i] # "="
    \/ fin.fn = "RegexParse" /\ (~fin.schema.regexPattern.compiles \/ fin.line.sub = <<>>)

\* C24: Parse always returns an entry whose raw is the line, and for a line
\* that is not valid JSON, has no key=value pair, or is not matched by a
\* compiling pattern, the fields hold at least msg = the line
C24_UnmatchedLineKeepsMsg ==
    Parsed =>
        /\ fout.e.raw = LineText
        /\ Unmatched => /\ sMsg \in DOMAIN fout.e.fields
                        /\ fout.e.fields[sMsg] = Str(LineText)

\* the decoded line holds a JSON payload in log, msg or message
HasPayload ==
    /\ fin.fn = "JSONParse"
    /\ fin.line.valid
    /\ PayloadKey(fin.line.m, innerKeys) # <<>>

\* the payload of the line
InnerOf == fin.line.m[PayloadKey(fin.line.m, innerKeys)].obj

\* C25: the keys of a JSON payload held in log, msg or message are merged into
\* the fields; a key of both keeps the outer value, and the wrapper field
\* stays
C25_OuterKeysWin ==
    (fout.fn = "JSONParse" /\ HasPayload) =>
        /\ \A k \in DOMAIN fin.line.m : /\ k \in DOMAIN fout.e.fields
                                        /\ fout.e.fields[k] = fin.line.m[k]
        /\ \A k \in DOMAIN InnerOf \ DOMAIN fin.line.m :
              /\ k \in DOMAIN fout.e.fields
              /\ fout.e.fields[k] = InnerOf[k]

\* the timestamp the object o gives under the layout of the call
TsFrom(o) ==
    LET v == getStringPaths(o, TsKeys)
    IN  IF v # <<>> THEN TimeParse(fallbackLayout(fin.schema.timeLayout, fin.forced), v)
        ELSE NoTime

\* the levels the object o gives under the mapping of the call
LevelFrom(o) ==
    LET v == getStringPaths(o, LevelKeys)
    IN  IF v # <<>> THEN normalizeLevel(fin.schema.levelMapping, v) ELSE {<<>>}

\* C26: timestamp and level come from the payload's ts/time/timestamp and
\* level/lvl/severity when a payload is present, and from the outer object
\* only otherwise
C26_InnerPayloadFirst ==
    (fout.fn = "JSONParse" /\ fin.line.valid) =>
        IF HasPayload
        THEN fout.e.ts = TsFrom(InnerOf) /\ fout.e.level \in LevelFrom(InnerOf)
        ELSE fout.e.ts = TsFrom(fin.line.m) /\ fout.e.level \in LevelFrom(fin.line.m)


\* the fixed set: TRACE, DEBUG, INFO, WARN/WARNING, ERROR/ERR, FATAL/CRITICAL
FixedSet ==
    {<<ToUpper(sTrace), ToUpper(sTrace)>>, <<ToUpper(sDebug), ToUpper(sDebug)>>,
     <<ToUpper(sInfo), ToUpper(sInfo)>>, <<ToUpper(sWarn), ToUpper(sWarn)>>,
     <<ToUpper(sWarning), ToUpper(sWarn)>>, <<ToUpper(sError), ToUpper(sError)>>,
     <<ToUpper(sErr), ToUpper(sError)>>, <<ToUpper(sFatal), ToUpper(sFatal)>>,
     <<ToUpper(sCritical), ToUpper(sFatal)>>}

\* what the fixed set, or failing that nothing, makes of the upper-cased u
ThroughFixedSet(u) ==
    IF \E ft \in FixedSet : ft[1] = u
    THEN (CHOOSE ft \in FixedSet : ft[1] = u)[2]
    ELSE u

\* the entries of the mapping whose key is u up to case
Matching(mapping, u) == {kv \in mapping : ToUpper(kv[1]) = u}

\* the levels the upper-cased raw value gives: the value of a matching entry
\* of the mapping, else the fixed set's, else the value itself
LevelsAsStated(mapping, raw) ==
    LET u == ToUpper(raw)
    IN  IF Matching(mapping, u) # {} THEN {kv[2] : kv \in Matching(mapping, u)}
        ELSE {ThroughFixedSet(u)}

\* the same on the raw value without the white space around it, a matching
\* entry giving its value upper-cased
LevelsTrimmed(mapping, raw) ==
    LET u == ToUpper(TrimSpace(raw))
    IN  IF Matching(mapping, u) # {} THEN {ToUpper(kv[2]) : kv \in Matching(mapping, u)}
        ELSE {ThroughFixedSet(u)}

\* the JSON line {"level": v} and the logfmt line level=v
JsonLevelLine(v) == [text |-> <<"{", "}">>, valid |-> TRUE, m |-> MkObj({<<sLevel, Str(v)>>})]
LogfmtLevelLine(v) == sLevel \o <<"=">> \o v

\* "info" parses to INFO and "warn" to WARN for the JSON and logfmt strategies
InfoAndWarnParse ==
    \A v \in {sInfo, sWarn} :
        /\ (fout.fn = "JSONParse" /\ fin.line = JsonLevelLine(v)) => fout.e.level = ToUpper(v)
        /\ (fout.fn = "LogfmtParse" /\ fin.line = LogfmtLevelLine(v)) => fout.e.level = ToUpper(v)

\* C27 as stated: the level is the upper-cased raw value put through a
\* case-insensitively matching levelMapping entry, else through the fixed
\* set, else returned upper-cased and otherwise unchanged; "info" parses to
\* INFO and "warn" to WARN for JSON and logfmt
C27_LevelAsStated ==
    /\ fout.fn = "normalizeLevel" => fout.level \in LevelsAsStated(fin.mapping, fin.lvl)
    /\ InfoAndWarnParse

\* C27, amended: the raw value is stripped of the white space around it and
\* upper-cased; a levelMapping entry whose key matches it case-insensitively
\* gives its value, upper-cased; else the fixed set applies; any other value
\* is returned stripped and upper-cased; "info" parses to INFO and "warn" to
\* WARN for JSON and logfmt
C27_LevelTrimmedAndUpper ==
    /\ fout.fn = "normalizeLevel" => fout.level \in LevelsTrimmed(fin.mapping, fin.lvl)
    /\ InfoAndWarnParse

\* a value with white space around it that no mapping entry and no fixed
\* level matches has been normalised
C27_Witness ==
    /\ fout.fn = "normalizeLevel"
    /\ fin.lvl = <<" ">> \o sNote \o <<"\n">>
    /\ fin.mapping = CannedMapping
    /\ fout.level = ToUpper(sNote)


\* the layout in priority order: the forced one, the Schema's, RFC3339
LayoutByPriority ==
    IF fin.forced # "" THEN fin.forced
    ELSE IF fin.schema.timeLayout # "" THEN fin.schema.timeLayout
    ELSE "RFC3339"

\* the call was made on a line whose timestamp value is v
TsValueIs(v) ==
    \/ fin.fn = "JSONParse" /\ fin.line = JsonTsLine(v)
    \/ fin.fn = "LogfmtParse" /\ fin.line = LogfmtTsLine(v)
    \/ /\ fin.fn = "RegexParse"
       /\ fin.schema.regexPattern.compiles
       /\ fin.line.sub # <<>>
       /\ fin.line.sub[1] = v

\* C28: the timestamp value is parsed under the forced layout, else the
\* Schema's, else RFC3339; a value that does not parse leaves the timestamp
\* unset and the entry is returned all the same; a well-formed value sets the
\* timestamp to its instant
C28_TimestampLayoutPriority ==
    \A v \in TimeValues :
        (Parsed /\ TsValueIs(v)) =>
            /\ fout.e.raw = LineText
            /\ IF v[1] = LayoutByPriority
               THEN fout.e.ts = [set |-> TRUE, at |-> v[2]]
               ELSE fout.e.ts = NoTime

\* a value well-formed under the forced layout and not under the Schema's
\* has set the timestamp
C28_Witness ==
    /\ fout.fn = "JSONParse"
    /\ fin.forced = "custom"
    /\ fin.schema.timeLayout = "RFC3339"
    /\ fin.line = JsonTsLine(TimeText("custom", "2"))
    /\ fout.e.ts = [set |-> TRUE, at |-> "2"]


(***************************************************************************)
(* The filter: filter.NewEvaluator and Evaluator.Match                     *)
(***************************************************************************)
\* unicode.ToLower on the characters in use
ToLowerChar(c) ==
    IF \E i \in DOMAIN UpperChars : UpperChars[i] = c
    THEN LowerChars[CHOOSE i \in DOMAIN UpperChars : UpperChars[i] = c]
    ELSE c

\* strings.ToLower
ToLower(s) == [i \in DOMAIN s |-> ToLowerChar(s[i])]

\* strings.Contains(text, q)
Contains(text, q) ==
    \E i \in 0..(Len(text) - Len(q)) : SubSeq(text, i + 1, i + Len(q)) = q

\* a JSON boolean
BoolV(b) ==
    [t |-> "bool",
     s |-> IF b THEN <<"t", "r", "u", "e">> ELSE <<"f", "a", "l", "s", "e">>,
     isObj |-> FALSE, obj |-> <<>>]

\* the number a string of digits denotes
DigitVal(c) == (CHOOSE i \in 1..10 : <<"0", "1", "2", "3", "4", "5", "6", "7", "8", "9">>[i] = c) - 1
RECURSIVE NumVal(_)
NumVal(ds) == IF ds = <<>> THEN 0 ELSE 10 * NumVal(SubSeq(ds, 1, Len(ds) - 1)) + DigitVal(ds[Len(ds)])

\* compiled expressions: a parameter, a literal, ==, >, || and &&
NoAst == [op |-> "none"]
Var(f) == [op |-> "var", name |-> f]
Lit(v) == [op |-> "lit", v |-> v]
Bin(o, l, r) == [op |-> o, l |-> l, r |-> r]

\* the outcome of Evaluate: an error, or a value
EvalErr == [err |-> TRUE, v |-> Absent]
EvalOk(v) == [err |-> FALSE, v |-> v]

\* expr.Evaluate(params).  A parameter that is not supplied is an error when
\* it is read; == compares any two values; > wants two numbers; || and &&
\* want two booleans and do not evaluate the right operand when the left one
\* decides
RECURSIVE Evaluate(_, _)
Evaluate(a, params) ==
    IF a.op = "var"
    THEN (IF a.name \in DOMAIN params THEN EvalOk(params[a.name]) ELSE EvalErr)
    ELSE IF a.op = "lit" THEN EvalOk(a.v)
    ELSE LET l == Evaluate(a.l, params) IN
         IF l.err THEN EvalErr
         ELSE IF a.op = "or" /\ l.v = BoolV(TRUE) THEN l
         ELSE IF a.op = "and" /\ l.v = BoolV(FALSE) THEN l
         ELSE LET r == Evaluate(a.r, params) IN
              IF r.err THEN EvalErr
              ELSE IF a.op = "eq" THEN EvalOk(BoolV(l.v = r.v))
              ELSE IF a.op = "gt"
              THEN (IF l.v.t = "num" /\ r.v.t = "num"
                    THEN EvalOk(BoolV(NumVal(l.v.s) > NumVal(r.v.s)))
                    ELSE EvalErr)
              ELSE IF l.v.t = "bool" /\ r.v.t = "bool" THEN r
              ELSE EvalErr

\* Criteria.Expr: its text and what NewEvaluableExpression makes of it
\* (NoAst: it does not compile)
MkExpr(text, ast) == [text |-> text, ast |-> ast]

\* regexp.Compile(q) succeeds
RegexCompiles(q) == \A i \in DOMAIN q : q[i] # "("

\* line 30, for a NewEvaluator that compiles every query
RegexWantedAlways(c) == c.query # <<>>

\* line 30: c.UseRegex && c.Query != ""
RegexWanted(c) == c.useRegex /\ c.query # <<>>

\* line 36: strings.TrimSpace(c.Expr) != ""
ExprWanted(c) == TrimSpace(c.expr.text) # <<>>

NoRe == [set |-> FALSE, pat |-> <<>>]
NoExpr == [set |-> FALSE, ast |-> NoAst]

\* NewEvaluator(c): the error, or the Evaluator
NewEvaluator(c) ==
    IF RegexWanted(c) /\ ~RegexCompiles(c.query)
    THEN [err |-> TRUE, re |-> NoRe, expr |-> NoExpr]
    ELSE IF ExprWanted(c) /\ c.expr.ast = NoAst
    THEN [err |-> TRUE, re |-> NoRe, expr |-> NoExpr]
    ELSE [err |-> FALSE,
          re |-> IF RegexWanted(c) THEN [set |-> TRUE, pat |-> c.query] ELSE NoRe,
          expr |-> IF ExprWanted(c) THEN [set |-> TRUE, ast |-> c.expr.ast] ELSE NoExpr]

\* lines 47-51: the level filter lets the entry through
LevelPasses(entry, c) ==
    \/ DOMAIN c.levels = {}
    \/ /\ ToUpper(entry.level) \in DOMAIN c.levels
       /\ c.levels[ToUpper(entry.level)]

\* lines 54-67: the text the query is tried on
QueryText(entry, c) ==
    IF c.field = <<>> THEN entry.raw
    ELSE IF c.field \in DOMAIN entry.fields THEN entry.fields[c.field].s
    ELSE <<>>

\* lines 53, 68-76: the query lets the entry through
QueryPasses(ev, entry, c) ==
    \/ c.query = <<>>
    \/ IF ev.re.set
       THEN Contains(QueryText(entry, c), ev.re.pat)
       ELSE Contains(ToLower(QueryText(entry, c)), ToLower(c.query))

\* lines 80-88: params
Params(entry) ==
    LET p1 == Put(entry.fields, sLevel, Str(entry.level))
    IN  IF entry.ts.set THEN Put(p1, sTs, Str(TimeText("RFC3339", entry.ts.at))) ELSE p1

\* lines 89-96, for a Match that lets the entry through when the evaluation
\* fails
ExprVerdictOpen(res) == res.err \/ (res.v.t = "bool" /\ res.v = BoolV(TRUE))

\* lines 89-96: what Match makes of the result of Evaluate
ExprVerdict(res) == ~res.err /\ res.v.t = "bool" /\ res.v = BoolV(TRUE)

\* Evaluator.Match(entry, c)
Match(ev, entry, c) ==
    /\ LevelPasses(entry, c)
    /\ QueryPasses(ev, entry, c)
    /\ ev.expr.set => ExprVerdict(Evaluate(ev.expr.ast, Params(entry)))

sUpInfo == <<"I", "N", "F", "O">>
s200 == <<"2", "0", "0">>

\* the expressions tried: single terms, and two terms under || or &&
ExprAtoms ==
    {Var(sNote), Var(sStatus), Var(sTs),
     Bin("eq", Var(sLevel), Lit(Str(sUpInfo))),
     Bin("eq", Var(sStatus), Lit(Num(s200))),
     Bin("gt", Var(sStatus), Lit(Num(<<"9">>)))}

Asts == ExprAtoms \cup {Bin(o, l, r) : o \in {"or", "and"}, l \in ExprAtoms, r \in ExprAtoms}

ExprSources ==
    {MkExpr(<<>>, NoAst), MkExpr(<<" ", "\t">>, NoAst), MkExpr(<<"(">>, NoAst)}
    \cup {MkExpr(<<"e">>, a) : a \in Asts}

\* Criteria.Levels
LevelSets == {<<>>, Put(<<>>, sUpInfo, TRUE), Put(<<>>, sUpInfo, FALSE)}

CriteriaSet ==
    [query : {<<>>, sNote, <<"(">>}, useRegex : BOOLEAN, levels : LevelSets,
     expr : ExprSources, field : {<<>>, sStatus}]

\* entries with or without status, note, a timestamp, a level
FilterEntries ==
    {[raw |-> r, fields |-> MkObj({<<sStatus, a>>, <<sNote, b>>}), ts |-> t,
      level |-> l, formatName |-> "json_lines"] :
        r \in {sNote, sInfo},
        a \in {Absent, Num(s200), Str(<<"x">>)},
        b \in {Absent, BoolV(TRUE)},
        t \in {NoTime, [set |-> TRUE, at |-> "1"]},
        l \in {<<>>, sUpInfo}}

\* a filter is compiled and, when that succeeds, applied to an entry
FilterInit ==
    /\ fin \in [fn : {"Filter"}, c : CriteriaSet, entry : FilterEntries]
    /\ fout = NoOut
    /\ Rest

\* NewEvaluator returns
NewEvaluatorCall ==
    /\ fin.fn = "Filter"
    /\ fout = NoOut
    /\ LET r == NewEvaluator(fin.c)
       IN  fout' = [fn |-> "NewEvaluator", err |-> r.err, ev |-> r, r |-> FALSE]
    /\ UNCHANGED <<fin, rvars, pvars>>

\* m.eval != nil && !m.eval.Match(e, m.criteria): Match returns
MatchCall ==
    /\ fout.fn = "NewEvaluator"
    /\ ~fout.err
    /\ fout' = [fn |-> "Match", err |-> FALSE, ev |-> fout.ev,
                r |-> Match(fout.ev, fin.entry, fin.c)]
    /\ UNCHANGED <<fin, rvars, pvars>>

FilterNext == NewEvaluatorCall \/ MatchCall

FilterSpec == FilterInit /\ [][FilterNext]_vars


\* the query is to be used as a regex and does not compile
RegexFails == fin.c.useRegex /\ fin.c.query # <<>> /\ ~RegexCompiles(fin.c.query)

\* an expression is given and does not compile
ExprFails == TrimSpace(fin.c.expr.text) # <<>> /\ fin.c.expr.ast = NoAst

\* C29: compiling Criteria returns an error exactly when the regex (useRegex
\* with a non-empty query) or the boolean expression fails to compile, and
\* Match on a compiled Evaluator returns true or false, never an error
C29_ErrorsOnlyAtCompile ==
    /\ fout.fn = "NewEvaluator" => (fout.err <=> (RegexFails \/ ExprFails))
    /\ fout.fn = "Match" => (~fout.err /\ fout.r \in BOOLEAN)

\* Match has returned for Criteria with a regex and an expression whose
\* evaluation fails on the entry
C29_Witness ==
    /\ fout.fn = "Match"
    /\ fout.ev.re.set
    /\ fout.ev.expr.set
    /\ Evaluate(fout.ev.expr.ast, Params(fin.entry)).err
    /\ fout.r = FALSE

\* the parameters the expression a refers to
RECURSIVE Refs(_)
Refs(a) ==
    IF a.op = "var" THEN {a.name}
    ELSE IF a.op = "lit" THEN {}
    ELSE Refs(a.l) \cup Refs(a.r)

\* the parameters the evaluation of a reads
RECURSIVE Reads(_, _)
Reads(a, params) ==
    IF a.op = "var" THEN {a.name}
    ELSE IF a.op = "lit" THEN {}
    ELSE LET l == Evaluate(a.l, params) IN
         IF \/ l.err
            \/ a.op = "or" /\ l.v = BoolV(TRUE)
            \/ a.op = "and" /\ l.v = BoolV(FALSE)
         THEN Reads(a.l, params)
         ELSE Reads(a.l, params) \cup Reads(a.r, params)

\* the entry has the field f: a key of its fields, its level, or its
\* timestamp when it has one
HasField(entry, f) ==
    \/ f \in DOMAIN entry.fields
    \/ f = sLevel
    \/ f = sTs /\ entry.ts.set

\* the evaluation of the configured expression on the entry fails or yields
\* no boolean
FailsOrNoBoolean ==
    LET res == Evaluate(fout.ev.expr.ast, Params(fin.entry))
    IN  res.err \/ res.v.t # "bool"

\* C30 as stated: an expression that refers to a field the entry does not
\* have, fails in evaluation or yields no boolean makes Match return false,
\* whatever the level and query criteria
C30_MissingFieldFailsClosed ==
    (/\ fout.fn = "Match"
     /\ fout.ev.expr.set
     /\ \/ \E f \in Refs(fout.ev.expr.ast) : ~HasField(fin.entry, f)
        \/ FailsOrNoBoolean)
    => fout.r = FALSE

\* C30, amended: an expression whose evaluation reads a field the entry does
\* not have (the right operand of || and && is not read when the left one
\* decides), fails or yields no boolean makes Match return false, whatever
\* the level and query criteria
C30_FailedEvaluationFailsClosed ==
    (/\ fout.fn = "Match"
     /\ fout.ev.expr.set
     /\ \/ \E f \in Reads(fout.ev.expr.ast, Params(fin.entry)) : ~HasField(fin.entry, f)
        \/ FailsOrNoBoolean)
    => fout.r = FALSE

\* Match has returned false for an entry that passes the level and the query
\* filter and lacks a field the evaluation reads
C30_Witness ==
    /\ fout.fn = "Match"
    /\ fout.ev.expr.set
    /\ fin.c.levels = Put(<<>>, sUpInfo, TRUE)
    /\ fin.c.query = sNote
    /\ LevelPasses(fin.entry, fin.c)
    /\ QueryPasses(fout.ev, fin.entry, fin.c)
    /\ \E f \in Reads(fout.ev.expr.ast, Params(fin.entry)) : ~HasField(fin.entry, f)
    /\ fout.r = FALSE


\* C40: a sample none of whose non-blank lines matches a recogniser (an empty
\* or all-blank sample and a single unrecognised line included) is classified
\* unknown, with confidence 0
C40_NoHitsIsUnknown ==
    (/\ fout.fn = "Heuristics"
     /\ JsonHits(fin.ks) = 0 /\ LogfmtHits(fin.ks) = 0
     /\ ApacheHits(fin.ks) = 0 /\ SyslogHits(fin.ks) = 0)
    => /\ fout.guess.schema = unknownSchema
       /\ fout.guess.hits = 0


\* the unquoted line ends with the key k and "=", k standing at the start of
\* the line or after white space
EndsWithKey(line, k) ==
    /\ \A i \in DOMAIN line : line[i] # "\""
    /\ Len(line) >= Len(k) + 1
    /\ SubSeq(line, Len(line) - Len(k), Len(line)) = k \o <<"=">>
    /\ Len(line) > Len(k) + 1 => IsSpace(line[Len(line) - Len(k) - 1])

\* C36: a trailing key without a value is recorded in the fields of the
\* logfmt entry, with the empty string as its value
C36_TrailingKeyRecorded ==
    \A k \in {sLevel, sInfo, sWarn} :
        (fout.fn = "LogfmtParse" /\ EndsWithKey(fin.line, k)) =>
            /\ k \in DOMAIN fout.e.fields
            /\ fout.e.fields[k] = Str(<<>>)


(***************************************************************************)
(* ingest.Read on its own: one reader goroutine and its two channels       *)
(*                                                                         *)
(* fin is the Options and the source behind them; fout is the goroutine:   *)
(* where it stands, what it has sent on out and errs, what it has closed.  *)
(* The receiver takes what is sent, so a send does not wait.               *)
(***************************************************************************)
\* what a source holds: lines within ScanBufSize ("line") and, for a
\* scanner, lines beyond it, for a tail, lines that carry l.Err ("bad")
Inputs == UNION {[1..n -> {"line", "bad"}] : n \in 0..MaxInput}

\* opt.Source, with a value that is none of the three kinds; opt.Follow;
\* BlockSizeBytes: 0 ("none"), at least the file size ("whole"), less than
\* the file size ("part"); whether the file exists and can be opened
ReadCalls ==
    {c \in [fn : {"Read"}, source : {"stdin", "file", "demo", "other"},
            follow : BOOLEAN, block : {"none", "whole", "part"}, opens : BOOLEAN,
            input : Inputs] :
        /\ c.source # "file" => (~c.follow /\ c.block = "none" /\ c.opens)
        /\ c.follow => c.block = "none"
        /\ c.source \in {"demo", "other"} => \A i \in DOMAIN c.input : c.input[i] = "line"}

\* Read, lines 37-38 and 40: the channels are made and the goroutine starts
NewRead ==
    [fn |-> "Read", pc |-> "go", pos |-> 1, cancelled |-> FALSE,
     out |-> <<>>, errs |-> <<>>, outClosed |-> FALSE, errsClosed |-> FALSE]

\* the goroutine returns: the deferred close(errs) and close(out)
Returned(r) == [r EXCEPT !.pc = "done", !.errsClosed = TRUE, !.outClosed = TRUE]

\* errs <- err; return, for a goroutine that leaves its channels open
FailedOpen(r) == [r EXCEPT !.pc = "done", !.errs = Append(@, "err")]

\* errs <- err; return
Failed(r) == Returned([r EXCEPT !.errs = Append(@, "err")])

ReadInit ==
    /\ fin \in ReadCalls
    /\ fout = NoOut
    /\ Rest

\* ingest.Read returns the two channels
ReadCall ==
    /\ fin.fn = "Read"
    /\ fout = NoOut
    /\ fout' = NewRead
    /\ UNCHANGED <<fin, rvars, pvars>>

\* lines 43-65, 89-100, 120-148: the switch on opt.Source up to the loop
ReadDispatch ==
    /\ fout.fn = "Read"
    /\ fout.pc = "go"
    /\ fout' = IF fin.source = "stdin" THEN [fout EXCEPT !.pc = "scan"]
               ELSE IF fin.source = "demo" THEN [fout EXCEPT !.pc = "demo"]
               ELSE IF fin.source = "other" THEN Failed(fout)
               ELSE IF ~fin.opens THEN Failed(fout)
               ELSE IF fin.follow THEN [fout EXCEPT !.pc = "tail"]
               ELSE IF fin.block = "part"
               \* the partial first line is dropped
               THEN [fout EXCEPT !.pc = "scan", !.pos = 2]
               ELSE [fout EXCEPT !.pc = "scan"]
    /\ UNCHANGED <<fin, rvars, pvars>>

\* readFromReader, lines 75-85: one scanner.Scan() and what follows it
ReadScan ==
    /\ fout.fn = "Read"
    /\ fout.pc = "scan"
    /\ fout' = IF fout.pos > Len(fin.input) THEN Returned(fout)
               ELSE IF fin.input[fout.pos] = "bad" THEN Failed(fout)
               ELSE IF fout.cancelled THEN Returned(fout)
               ELSE [fout EXCEPT !.out = Append(@, fout.pos), !.pos = @ + 1]
    /\ UNCHANGED <<fin, rvars, pvars>>

\* readFromTail, lines 102-116: the select takes a line of t.Lines
ReadTailLine ==
    /\ fout.fn = "Read"
    /\ fout.pc = "tail"
    /\ fout.pos <= Len(fin.input)
    /\ fout' = IF fin.input[fout.pos] = "bad"
               THEN [fout EXCEPT !.errs = Append(@, "err"), !.pos = @ + 1]
               ELSE [fout EXCEPT !.out = Append(@, fout.pos), !.pos = @ + 1]
    /\ UNCHANGED <<fin, rvars, pvars>>

\* demo: the generator sends its next line
ReadDemoLine ==
    /\ fout.fn = "Read"
    /\ fout.pc = "demo"
    /\ fout.pos <= Len(fin.input)
    /\ fout' = [fout EXCEPT !.out = Append(@, fout.pos), !.pos = @ + 1]
    /\ UNCHANGED <<fin, rvars, pvars>>

\* readFromTail, lines 104-106, and demo: the select takes ctx.Done()
ReadSelectDone ==
    /\ fout.fn = "Read"
    /\ fout.pc \in {"tail", "demo"}
    /\ fout.cancelled
    /\ fout' = Returned(fout)
    /\ UNCHANGED <<fin, rvars, pvars>>

\* the caller cancels ctx
ReadCancel ==
    /\ fout.fn = "Read"
    /\ fout.pc # "done"
    /\ ~fout.cancelled
    /\ fout' = [fout EXCEPT !.cancelled = TRUE]
    /\ UNCHANGED <<fin, rvars, pvars>>

ReadNext ==
    \/ ReadCall
    \/ ReadDispatch
    \/ ReadScan
    \/ ReadTailLine
    \/ ReadDemoLine
    \/ ReadSelectDone
    \/ ReadCancel

ReadSpec == ReadInit /\ [][ReadNext]_vars

\* the lines of the source the reader is to deliver
Deliverable ==
    {i \in DOMAIN fin.input :
        /\ fin.input[i] = "line"
        /\ (fin.block = "part") => i > 1}

\* C31: an error local to one line, an oversized line in particular, does not
\* interrupt the stream: it is reported on the error stream and the lines
\* after it are still emitted, so a reader that was not cancelled does not
\* close its channels before it has emitted every line of its source
C31_LineErrorAbsorbed ==
    (/\ fout.fn = "Read"
     /\ fout.outClosed
     /\ ~fout.cancelled
     /\ fin.source \in {"stdin", "file"}
     /\ fin.opens)
    => /\ \A i \in Deliverable : \E j \in DOMAIN fout.out : fout.out[j] = i
       /\ Len(fout.errs) = Cardinality({i \in DOMAIN fin.input :
                                          /\ fin.input[i] = "bad"
                                          /\ (fin.block = "part") => i > 1})

\* the stream is one an error ends at once: the source cannot be opened, the
\* tail target is missing, the source kind is unknown
EndedByError ==
    \/ fin.source = "other"
    \/ fin.source = "file" /\ ~fin.opens

\* C32: when the source cannot be opened, the tail target is missing or the
\* source kind is unknown, the reader emits one error and no line, and then
\* closes the error channel and the line channel
C32_OneFinalError ==
    (fout.fn = "Read" /\ EndedByError) =>
        /\ fout.out = <<>>
        /\ fout.pc \in {"go", "done"}
        /\ fout.pc = "go" => (fout.errs = <<>> /\ ~fout.errsClosed /\ ~fout.outClosed)
        /\ fout.pc = "done" => (fout.errs = <<"err">> /\ fout.errsClosed /\ fout.outClosed)

\* a reader whose tail target is missing has sent its error and closed
C32_Witness ==
    /\ fout.fn = "Read"
    /\ fin.source = "file" /\ fin.follow /\ ~fin.opens
    /\ fout.pc = "done"
    /\ fout.errs = <<"err">>
    /\ fout.errsClosed /\ fout.outClosed


(***************************************************************************)
(* The messages of an online session: detectedMsg, loadDoneMsg,            *)
(* openaiStartMsg, openaiDoneMsg and the commands that deliver them        *)
(*                                                                         *)
(* fin is the configuration; fout is the part of the Model these handlers  *)
(* touch: netBusy, the Schema in effect (0: the detected one, i: the       *)
(* result of inference call i), the commands the runtime is running and    *)
(* the messages waiting for Update, in order of arrival.                   *)
(***************************************************************************)
\* key presses (Redetect, Follow) of one session
MaxKeys == 1

SessionCalls == [fn : {"Session"}, follow : BOOLEAN, cacheHit : BOOLEAN, noCache : BOOLEAN]

NewSession ==
    [fn |-> "Session", follow |-> fin.follow, cached |-> fin.cacheHit,
     netBusy |-> FALSE, schema |-> 0, started |-> 0, keys |-> 0,
     cmds |-> {[t |-> "detect", id |-> 0, ok |-> TRUE]}, msgs |-> <<>>, oks |-> {}]

Cmd(t, id) == [t |-> t, id |-> id, ok |-> TRUE]

\* tea.Batch(openaiStartMsg, the InferSchema call): call number id starts;
\* the command of openaiStartMsg returns at once, the call is in flight
InferBatch(o, id) ==
    [o EXCEPT !.started = id,
              !.cmds = @ \cup {Cmd("infer", id)},
              !.msgs = Append(@, Cmd("openaiStartMsg", id))]

BusyInit ==
    /\ fin \in SessionCalls
    /\ fout = NoOut
    /\ Rest

\* Model.Init: the first setupPipeline closure starts
SessionStart ==
    /\ fin.fn = "Session"
    /\ fout = NoOut
    /\ fout' = NewSession
    /\ UNCHANGED <<fin, rvars, pvars>>

\* setupPipeline, lines 150-173: the closure returns detectedMsg, batched
\* with openaiStartMsg and the inference call when there was no cache hit;
\* the messages of a batch arrive in either order
DetectionReturns ==
    /\ fout.fn = "Session"
    /\ Cmd("detect", 0) \in fout.cmds
    /\ LET done     == [fout EXCEPT !.cmds = @ \ {Cmd("detect", 0)}]
           detected == Cmd("detectedMsg", 0)
           id       == fout.started + 1
       IN  \/ /\ fout.cached
              /\ fout' = [done EXCEPT !.msgs = Append(@, detected)]
           \/ /\ ~fout.cached
              /\ \/ fout' = InferBatch([done EXCEPT !.msgs = Append(@, detected)], id)
                 \/ fout' = [InferBatch(done, id) EXCEPT !.msgs = Append(@, detected)]
    /\ UNCHANGED <<fin, rvars, pvars>>

\* client.InferSchema returns: openaiDoneMsg{ok: ...}
InferReturns ==
    /\ fout.fn = "Session"
    /\ \E c \in fout.cmds, ok \in BOOLEAN :
          /\ c.t = "infer"
          /\ fout' = [fout EXCEPT !.cmds = @ \ {c},
                                  !.msgs = Append(@, [t |-> "openaiDoneMsg", id |-> c.id,
                                                      ok |-> ok])]
    /\ UNCHANGED <<fin, rvars, pvars>>

\* the drain command of detectedMsg, part_004 482-497: after its sleep it
\* clears m.netBusy when not following, and returns loadDoneMsg
DrainReturns ==
    /\ fout.fn = "Session"
    /\ Cmd("drain", 0) \in fout.cmds
    /\ fout' = [fout EXCEPT !.cmds = @ \ {Cmd("drain", 0)},
                            !.netBusy = IF fout.follow THEN @ ELSE FALSE,
                            !.msgs = Append(@, Cmd("loadDoneMsg", 0))]
    /\ UNCHANGED <<fin, rvars, pvars>>

\* Update takes the next message
UpdateMsg ==
    /\ fout.fn = "Session"
    /\ fout.msgs # <<>>
    /\ LET msg  == Head(fout.msgs)
           rest == [fout EXCEPT !.msgs = Tail(@)]
       IN  fout' =
             IF msg.t = "detectedMsg"
             THEN [rest EXCEPT !.cmds = @ \cup {Cmd("drain", 0)}]
             ELSE IF msg.t = "loadDoneMsg"
             THEN [rest EXCEPT !.netBusy = FALSE]
             ELSE IF msg.t = "openaiStartMsg"
             THEN [rest EXCEPT !.netBusy = TRUE]
             \* openaiDoneMsg
             ELSE IF msg.ok
             THEN [rest EXCEPT !.netBusy = FALSE, !.schema = msg.id,
                               !.oks = @ \cup {msg.id},
                               !.cached = @ \/ ~fin.noCache]
             ELSE [rest EXCEPT !.netBusy = FALSE]
    /\ UNCHANGED <<fin, rvars, pvars>>

\* keymap.Redetect in an online session with entries in the Ring
RedetectOnline ==
    /\ fout.fn = "Session"
    /\ fout.keys < MaxKeys
    /\ Cmd("detect", 0) \notin fout.cmds
    /\ fout' = InferBatch([fout EXCEPT !.keys = @ + 1], fout.started + 1)
    /\ UNCHANGED <<fin, rvars, pvars>>

\* keymap.Follow: the pipeline restarts with a new detection closure
FollowRestart ==
    /\ fout.fn = "Session"
    /\ fout.keys < MaxKeys
    /\ Cmd("detect", 0) \notin fout.cmds
    /\ fout' = [fout EXCEPT !.keys = @ + 1, !.follow = ~@,
                            !.cmds = @ \cup {Cmd("detect", 0)}]
    /\ UNCHANGED <<fin, rvars, pvars>>

BusyNext ==
    \/ SessionStart
    \/ DetectionReturns
    \/ InferReturns
    \/ DrainReturns
    \/ UpdateMsg
    \/ RedetectOnline
    \/ FollowRestart

BusySpec == BusyInit /\ [][BusyNext]_vars

\* inference call i is in flight, or its result waits for Update
Unhandled(i) ==
    \/ Cmd("infer", i) \in fout.cmds
    \/ \E k \in DOMAIN fout.msgs : fout.msgs[k].t = "openaiDoneMsg" /\ fout.msgs[k].id = i

\* the openaiStartMsg of call i has been handled
Announced(i) ==
    /\ i <= fout.started
    /\ \A k \in DOMAIN fout.msgs :
          ~(fout.msgs[k].t = "openaiStartMsg" /\ fout.msgs[k].id = i)

\* C33: while an inference call that has been announced to Update is in
\* flight or its result is not yet handled, netBusy is set; it is cleared
\* only when the call's result has been handled
C33_BusyWhileInFlight ==
    fout.fn = "Session" =>
        \A i \in 1..fout.started : (Announced(i) /\ Unhandled(i)) => fout.netBusy

\* C38: once every inference call has completed and its result is handled,
\* the Schema in effect is the result of the most recently started call that
\* delivered one; the result of an older call has not replaced it
C38_LatestCallWins ==
    (/\ fout.fn = "Session"
     /\ fout.oks # {}
     /\ \A i \in 1..fout.started : ~Unhandled(i))
    => fout.schema = CHOOSE i \in fout.oks : \A j \in fout.oks : j <= i


(***************************************************************************)
(* The field list of the Schema after a replay: setupPipeline and          *)
(* applyNewSchema                                                          *)
(*                                                                         *)
(* Schema.Fields is modelled by the set of its names (the code sorts       *)
(* them), SampleParsedRow by the fields of an entry.                       *)
(***************************************************************************)
\* the keys of the fields of the entries parsed from lines; blank keys are skipped
FieldSet(p, forced, lines) ==
    UNION {DOMAIN e.fields \ {k \in DOMAIN e.fields : TrimSpace(k) = <<>>} :
             e \in UNION {RegexParse(p, forced, lines[i]) : i \in DOMAIN lines}}

\* sampleRow: the fields of the first entry, or the row the Schema had
SampleRows(p, forced, lines, row) ==
    IF lines = <<>> THEN {row} ELSE {e.fields : e \in RegexParse(p, forced, lines[1])}

\* setupPipeline, lines 135-149: if len(fieldSet) > 0
ReplayFields(fields, fieldSet) == IF fieldSet # {} THEN fieldSet ELSE fields

NonGeneric(fieldSet) == fieldSet \ {sMsg, sMessage}

\* applyNewSchema, lines 488-506: if nonGeneric > 0
ApplyFields(fields, fieldSet) == IF NonGeneric(fieldSet) # {} THEN fieldSet ELSE fields

\* a replay of up to MaxInput buffered lines under a regex Schema that came
\* with a field list of its own, or with none
FieldsCalls ==
    [fn : {"setupPipeline", "applyNewSchema"},
     schema : {RichSchema(apacheSchema, "", NoMapping, pat) : pat \in RegexPatterns},
     fields : {{}, {sTs, sLevel, sNote}},
     row : {<<>>},
     lines : UNION {[1..n -> {[text |-> sNote, sub |-> <<>>],
                              [text |-> sNote,
                               sub |-> <<TimeText("RFC3339", "1"), sNote, sInfo, sNote>>]}] :
                      n \in 0..MaxInput}]

FieldsInit ==
    /\ fin \in FieldsCalls
    /\ fout = NoOut
    /\ Rest

\* setupPipeline, lines 113-149: the replay of the buffered lines
SetupReplayCall ==
    /\ fin.fn = "setupPipeline"
    /\ fout = NoOut
    /\ LET p  == NewParser(fin.schema)
           fs == FieldSet(p, "", fin.lines)
       IN  \E r \in SampleRows(p, "", fin.lines, fin.row) :
              fout' = [fn |-> "setupPipeline", fields |-> ReplayFields(fin.fields, fs),
                       row |-> IF fs # {} THEN r ELSE fin.row]
    /\ UNCHANGED <<fin, rvars, pvars>>

\* applyNewSchema, lines 464-506: the re-parse of the Ring's entries
ApplyNewSchemaCall ==
    /\ fin.fn = "applyNewSchema"
    /\ fout = NoOut
    /\ LET p  == NewParser(fin.schema)
           fs == FieldSet(p, "", fin.lines)
       IN  \E r \in SampleRows(p, "", fin.lines, fin.row) :
              fout' = [fn |-> "applyNewSchema", fields |-> ApplyFields(fin.fields, fs),
                       row |-> IF NonGeneric(fs) # {} THEN r ELSE fin.row]
    /\ UNCHANGED <<fin, rvars, pvars>>

FieldsNext == SetupReplayCall \/ ApplyNewSchemaCall

FieldsSpec == FieldsInit /\ [][FieldsNext]_vars

\* the field set the replay of the call discovers
Discovered == FieldSet(NewParser(fin.schema), "", fin.lines)

\* C34: a replay overwrites the Schema's field list and sample row with the
\* discovered field set only if a discovered field is something other than
\* msg/message; otherwise the field list the Schema had is left unchanged
C34_OnlyNonGenericOverwrites ==
    fout.fn \in {"setupPipeline", "applyNewSchema"} =>
        IF NonGeneric(Discovered) # {}
        THEN fout.fields = Discovered
        ELSE fout.fields = fin.fields /\ fout.row = fin.row


(***************************************************************************)
(* One re-detect: triggerRedetect, redetectMsg, openaiDoneMsg              *)
(*                                                                         *)
(* fin holds the lines of the source and whether inference is configured.  *)
(* fout is the Model: the Ring, fed by the ticks, the Schema and Parser,   *)
(* and what triggerRedetect computed (lines, g) and handed to the call.    *)
(***************************************************************************)
\* cfg.MaxBuffer is at least 50000: the Ring holds more than the window of
\* a re-detect; the source has up to one line more than the Ring holds
RedetectBuffer == RedetectWindow + 2

RedetectCalls ==
    [fn : {"Redetect"}, online : BOOLEAN,
     ks : UNION {[1..n -> {"json", "apache"}] : n \in 0..(RedetectBuffer + 1)}]

\* lines := the Raw of the last 50 entries
RedetectLinesAll(entries) == RawOf(entries)
RedetectLines(entries) == RawOf(LastK(entries, Min(Len(entries), RedetectWindow)))

\* lines[:min(10, len(lines))]
RedetectPrefix(lines) == SubSeq(lines, 1, Min(RedetectSample, Len(lines)))

\* applyNewSchema(s, reason) as one step of Update
ApplyNewSchema(o, s) ==
    [o EXCEPT !.schema = s, !.parser = NewParser(s),
              !.ring = Reparse(NewRing(RedetectBuffer), NewParser(s), Snapshot(o.ring).entries)]

RedetectInit ==
    /\ fin \in RedetectCalls
    /\ fout = NoOut
    /\ Rest

\* the session after detection: an empty Ring under the unknown Schema
RedetectBoot ==
    /\ fin.fn = "Redetect"
    /\ fout = NoOut
    /\ fout' = [fn |-> "Redetect", pc |-> "idle", pushed |-> 0, seen |-> 0,
                ring |-> NewRing(RedetectBuffer), schema |-> unknownSchema,
                parser |-> NewParser(unknownSchema),
                lines |-> <<>>, g |-> NoSchema, sent |-> <<>>]
    /\ UNCHANGED <<fin, rvars, pvars>>

\* a tick pushes the next line of the source, parsed by the active Parser
RedetectTick ==
    /\ fout.fn = "Redetect"
    /\ fout.pushed < Len(fin.ks)
    /\ fout' = [fout EXCEPT !.pushed = @ + 1,
                            !.ring = Push(@, Parse(fout.parser,
                                                   MkSample(fin.ks)[fout.pushed + 1]))]
    /\ UNCHANGED <<fin, rvars, pvars>>

\* keymap.Redetect: triggerRedetect
TriggerRedetect ==
    /\ fout.fn = "Redetect"
    /\ fout.pc = "idle"
    /\ LET entries == Snapshot(fout.ring).entries
           lines   == RedetectLines(entries)
           g       == Heuristics(RedetectPrefix(lines))
           o       == [fout EXCEPT !.seen = fout.pushed]
       IN  fout' = IF Len(entries) = 0
                   THEN [o EXCEPT !.pc = "toast"]
                   ELSE IF fin.online
                   THEN [o EXCEPT !.pc = "call", !.lines = lines, !.g = g.schema,
                                  !.sent = RedetectPrefix(lines)]
                   ELSE [o EXCEPT !.pc = "msg", !.lines = lines, !.g = g.schema]
    /\ UNCHANGED <<fin, rvars, pvars>>

\* case redetectMsg
RedetectMsgApplied ==
    /\ fout.fn = "Redetect"
    /\ fout.pc = "msg"
    /\ fout' = [ApplyNewSchema(fout, fout.g) EXCEPT !.pc = "applied"]
    /\ UNCHANGED <<fin, rvars, pvars>>

\* the inference call returns and Update handles its openaiDoneMsg
RedetectInferDone ==
    /\ fout.fn = "Redetect"
    /\ fout.pc = "call"
    /\ \/ fout' = [ApplyNewSchema(fout, aiSchema) EXCEPT !.pc = "applied"]
       \/ fout' = [fout EXCEPT !.pc = "failed"]
    /\ UNCHANGED <<fin, rvars, pvars>>

RedetectNext ==
    \/ RedetectBoot
    \/ RedetectTick
    \/ TriggerRedetect
    \/ RedetectMsgApplied
    \/ RedetectInferDone

RedetectSpec == RedetectInit /\ [][RedetectNext]_vars

\* the lines of the source pushed so far, and those pushed when the key was pressed
PushedLines == SubSeq(MkSample(fin.ks), 1, fout.pushed)
SeenLines == SubSeq(MkSample(fin.ks), 1, fout.seen)

\* the key was pressed on a Ring with entries
Redetecting == fout.fn = "Redetect" /\ fout.pc \notin {"idle", "toast"}

\* triggerRedetect took the most recent RedetectWindow raw texts and ran the
\* Classifier on the first RedetectSample of them
TookWindow ==
    /\ fout.lines = LastK(SeenLines, Min(fout.seen, RedetectWindow))
    /\ fout.lines # <<>>
    /\ fout.g = Heuristics(SubSeq(fout.lines, 1, Min(RedetectSample, Len(fout.lines)))).schema

\* the Schema s is in effect and the Ring holds every line pushed so far,
\* parsed against s
ReparsedUnder(s) ==
    /\ fout.schema = s
    /\ Snapshot(fout.ring).entries =
          LastK([i \in 1..fout.pushed |-> Parse(NewParser(s), PushedLines[i])],
                Min(fout.pushed, RedetectBuffer))

\* C35 as stated: every re-detect on a Ring with entries takes the window,
\* classifies its prefix and applies the Classifier's Schema by re-parsing
\* the whole Ring
C35_ClassifierSchemaApplied ==
    Redetecting =>
        /\ TookWindow
        /\ fout.pc \in {"msg", "applied"}
        /\ fout.pc = "applied" => ReparsedUnder(fout.g)

\* C35: a re-detect on a Ring with entries takes the raw text of the most
\* recent window of entries and classifies its prefix; offline the
\* Classifier's Schema is applied by re-parsing the whole Ring; online an
\* inference call on the same prefix is started instead and its result, if
\* any, is what is applied by re-parsing the whole Ring
C35_RedetectApplies ==
    Redetecting =>
        /\ TookWindow
        /\ ~fin.online => /\ fout.pc \in {"msg", "applied"}
                          /\ fout.pc = "applied" => ReparsedUnder(fout.g)
        /\ fin.online => /\ fout.pc \in {"call", "applied", "failed"}
                         /\ fout.sent = SubSeq(fout.lines, 1, Min(RedetectSample, Len(fout.lines)))
                         /\ fout.pc = "applied" => ReparsedUnder(aiSchema)
                         /\ fout.pc # "applied" => fout.schema = unknownSchema

\* an offline re-detect on a full Ring whose window is not the whole Ring and
\* whose oldest line is of another format, applied after one more push
C35_Witness ==
    /\ Redetecting /\ ~fin.online /\ fout.pc = "applied"
    /\ fout.seen > RedetectWindow /\ fout.pushed > fout.seen
    /\ fin.ks[1] # fin.ks[fout.seen - RedetectWindow + 1]


\* C39: totalIngested and totalDropped of the session's Ring never decrease,
\* whatever the step: a push, or the Ring rebuilt by a schema swap
C39_CountersNeverDecrease ==
    [][(fout.fn = "Redetect" /\ fout'.fn = "Redetect") =>
          /\ fout'.ring.total >= fout.ring.total
          /\ fout'.ring.dropped >= fout.ring.dropped]_vars


\* no detection goroutine is running, no tick is draining and no
\* applyNewSchema is under way
SchemaSettled ==
    /\ UpdateIdle
    /\ \A g \in Detectors : det[g].pc = "done"

\* C37: once no detection or schema swap is in progress, every entry of the
\* Ring was produced by the active Parser: its formatName is the active
\* Schema's
C37_RingUnderActiveSchema ==
    SchemaSettled =>
        \A i \in 1..Len(RingEntries) : RingEntries[i].formatName = mSchema.formatName

====
